---- MODULE Spec2Model ----
(***************************************************************************)
(* A model of the U-RAS scheduling kernel.                                 *)
(*                                                                         *)
(*   - SimpleScheduler::schedule (scheduler/simple.rs) with the Schedule,  *)
(*     Calendar and TransitionMatrixCollection it uses (models/*.rs);      *)
(*   - the dual-vector Chromosome and the genetic operators (ga/*.rs).     *)
(*                                                                         *)
(* Option<T> is modelled as a sequence of length at most one: None is <<>> *)
(* and Some(v) is <<v>>.  A HashMap is a function whose DOMAIN is the set  *)
(* of keys inserted so far.                                                *)
(***************************************************************************)
EXTENDS Integers, Sequences, FiniteSets, TLC

VARIABLES
    \* ---- SimpleScheduler::schedule: arguments and the scheduler's field
    tasks,                \* tasks: &[Task]
    resources,            \* resources: &[Resource]
    start_time_ms,        \* start_time_ms: i64
    transition_matrices,  \* self.transition_matrices
    \* ---- SimpleScheduler::schedule: locals
    pc,                   \* position in schedule()
    sorted_tasks,         \* indices into tasks, in the order of sorted_tasks
    task_pos,             \* position of the outer loop in sorted_tasks
    act_pos,              \* position of the inner loop in task.activities
    task_start,           \* the task cursor
    resource_available,   \* HashMap<String, i64>
    last_category,        \* HashMap<String, String>
    schedule,             \* the Schedule under construction / returned
    \* ---- ga: the arguments of the constructors and operators
    activities,           \* activities: &[ActivityInfo]
    ga_resources,         \* resources: &[Resource] of with_load_balancing
    process_times,        \* process_times of with_shortest_time
    operators,            \* GeneticOperators
    \* ---- ga: the chromosomes built and bred
    ga_pc,                \* "build" until two chromosomes are built, then
                          \* "cross", then "done"
    built,                \* the chromosomes the constructors returned
    children,             \* what crossover returned: <<child1, child2>>
    mutated,              \* Some(chromosome) once mutate has changed built[1]
    \* ---- ga: the Population and the call last made on it
    individuals,          \* Population.individuals
    params,               \* Population.params
    generation,           \* Population.generation
    pop_best,             \* Population.best: Option<Chromosome>
    fitness_history,      \* Population.fitness_history
    pop_pc,               \* "none" before Population::new, then the call
                          \* that returned last: "new", "fitness", "evolve",
                          \* "is_converged"
    crossover_calls,      \* crossovers applied by the last evolve
    converged,            \* Some(what is_converged returned last)
    \* ---- ga: two runs of Population::new from one seed
    rng_seed,             \* Some(the draws the seeded random source gives)
    run_a,                \* Some(the individuals of the first run)
    run_b,                \* Some(the individuals of the second run)
    \* ---- models/calendar.rs: a Calendar and a call of next_available_time
    calendar_built,       \* the Calendar built so far
    asked_from_ms,        \* Some(the argument of next_available_time)
    next_time,            \* Some(what next_available_time returned)
    \* ---- validation.rs: validate_input(tasks, resources)
    validation,           \* Some(the ValidationResult returned)
    \* ---- dispatching: RuleEngine::sort(tasks, context) and select_best
    engine,               \* the RuleEngine
    context,              \* the SchedulingContext
    sort_result,          \* Some(what sort returned, or that it panicked)
    best_result,          \* Some(what select_best returned, or that it
                          \* panicked)
    \* ---- ga: single calls of tournament_selection and decode_osv, and
    \* the locals of a call of Population::evolve in progress
    sampled,              \* the indices tournament_selection drew, in order
    selected_idx,         \* Some(the index tournament_selection returned)
    decoded,              \* Some(what decode_osv returned)
    evolve_new_population \* new_population of evolve

schedInputs == <<tasks, resources, start_time_ms, transition_matrices>>
schedLocals == <<pc, sorted_tasks, task_pos, act_pos, task_start,
                 resource_available, last_category, schedule>>
schedVars == <<schedInputs, schedLocals>>

gaInputs == <<activities, ga_resources, process_times, operators>>
gaVars == <<gaInputs, ga_pc, built, children>>

opsVars == <<mutated>>
popVars == <<individuals, params, generation, pop_best, fitness_history, pop_pc,
             crossover_calls, converged>>
runVars == <<rng_seed, run_a, run_b>>
calVars == <<calendar_built, asked_from_ms, next_time>>
valVars == <<validation>>
engVars == <<engine, context, sort_result, best_result>>
selVars == <<sampled, selected_idx, decoded>>
loopVars == <<evolve_new_population>>

vars == <<schedVars, gaVars, opsVars, popVars, runVars, calVars, valVars, engVars,
          selVars, loopVars>>

\* what the scheduler leaves alone, what the chromosome constructors and
\* the crossover do, what mutate does, what the Population does and what
\* the two seeded runs do
outsideGa == <<calVars, valVars, engVars, selVars, loopVars>>
notSched == <<gaVars, opsVars, popVars, runVars, outsideGa>>
notGa == <<schedVars, opsVars, popVars, runVars, outsideGa>>
notOps == <<schedVars, popVars, runVars, outsideGa>>
notPop == <<schedVars, opsVars, runVars, outsideGa>>
notRun == <<schedVars, opsVars, popVars, outsideGa>>
\* what a call on a Calendar, validate_input and the RuleEngine leave alone
notCal == <<schedVars, gaVars, opsVars, popVars, runVars, valVars, engVars,
            selVars, loopVars>>
notVal == <<schedLocals, gaVars, opsVars, popVars, runVars, calVars, engVars,
            selVars, loopVars>>
notEng == <<schedLocals, start_time_ms, transition_matrices, gaVars, opsVars,
            popVars, runVars, calVars, valVars, selVars, loopVars>>

----------------------------------------------------------------------------
(* Bounds of the model *)

\* activity process_ms ranges over 0..MaxDur
MaxDur == 1
\* activity teardown_ms ranges over 0..MaxTeardown
MaxTeardown == 1
\* task priority ranges over 0..MaxPriority
MaxPriority == 1
\* task release times range over 0..MaxRelease
MaxRelease == 1
\* start_time_ms is -StartSpan or 0
StartSpan == 3
\* the transition time of the one listed pair, and the matrix default
SetupAB == 2
DefaultSetup == 1
\* resource capacity ranges over 1..MaxCapacity
MaxCapacity == 2
\* the end of the always-available calendar window
HorizonMs == 8
\* Population: assigned fitness values range over 0..MaxFitness and
\* +infinity, evolve is called at most MaxGenerations times,
\* convergence_generations and the length of an assigned fitness history
\* range over 0..MaxWindow
MaxFitness == 1
MaxGenerations == 2
MaxWindow == 2
\* Calendar: window and blocked-period bounds range over 0..CalHorizon, as
\* does the time asked for; a calendar has at most MaxTimeWindows windows
\* and MaxBlocked blocked periods
CalHorizon == 3
MaxTimeWindows == 2
MaxBlocked == 1
\* validate_input: at most MaxValidated tasks and as many resources
MaxValidated == 3
\* RuleEngine: utilizations range over 1..MaxUtilSteps steps, queue lengths
\* over 0..MaxQueue, deadlines over 0..MaxDeadline milliseconds and rule
\* weights over 0..MaxWeight
MaxUtilSteps == 2
MaxQueue == 1
MaxDeadline == 1
MaxWeight == 2

----------------------------------------------------------------------------
(* Helpers *)

None == <<>>
Some(v) == <<v>>
IsSome(o) == o # <<>>
Unwrap(o) == o[1]

Max(a, b) == IF a >= b THEN a ELSE b

Range(s) == {s[i] : i \in DOMAIN s}

RECURSIVE SetMax(_)
SetMax(S) ==
    LET x == CHOOSE y \in S : TRUE
    IN  IF S = {x} THEN x ELSE Max(x, SetMax(S \ {x}))

----------------------------------------------------------------------------
(* models/calendar.rs *)

\* TimeWindow::new
TimeWindow(s, e) == [start_ms |-> s, end_ms |-> e]

\* TimeWindow::contains
contains(w, timestamp_ms) ==
    timestamp_ms >= w.start_ms /\ timestamp_ms < w.end_ms

\* Calendar::is_working_time
is_working_time(cal, timestamp_ms) ==
    LET in_window ==
            \E i \in DOMAIN cal.time_windows :
                contains(cal.time_windows[i], timestamp_ms)
        not_blocked ==
            ~ \E i \in DOMAIN cal.blocked_periods :
                contains(cal.blocked_periods[i], timestamp_ms)
    IN  in_window /\ not_blocked

\* Calendar::next_available_time: from_ms when it is working time, else the
\* least max(start_ms, from_ms) over the windows that end after from_ms,
\* else from_ms
next_available_time(cal, from_ms) ==
    IF is_working_time(cal, from_ms) THEN from_ms
    ELSE LET later == { i \in DOMAIN cal.time_windows :
                          cal.time_windows[i].end_ms > from_ms }
             starts == { Max(cal.time_windows[i].start_ms, from_ms) : i \in later }
         IN  IF starts = {} THEN from_ms
             ELSE CHOOSE m \in starts : \A x \in starts : m <= x

\* Calendar::new
NewCalendar == [time_windows |-> <<>>, blocked_periods |-> <<>>]

\* Calendar::with_window
with_window(cal, start_ms, end_ms) ==
    [cal EXCEPT !.time_windows = Append(@, TimeWindow(start_ms, end_ms))]

\* Calendar::with_blocked
with_blocked(cal, start_ms, end_ms) ==
    [cal EXCEPT !.blocked_periods = Append(@, TimeWindow(start_ms, end_ms))]

\* the windows given to with_window and with_blocked: start before end
WindowBounds ==
    { w \in (0..CalHorizon) \X (0..CalHorizon) : w[1] < w[2] }

\* calendar.with_window(start_ms, end_ms)
WithWindow ==
    /\ asked_from_ms = None
    /\ Len(calendar_built.time_windows) < MaxTimeWindows
    /\ \E w \in WindowBounds :
          calendar_built' = with_window(calendar_built, w[1], w[2])
    /\ UNCHANGED <<asked_from_ms, next_time>>
    /\ UNCHANGED notCal

\* calendar.with_blocked(start_ms, end_ms)
WithBlocked ==
    /\ asked_from_ms = None
    /\ Len(calendar_built.blocked_periods) < MaxBlocked
    /\ \E w \in WindowBounds :
          calendar_built' = with_blocked(calendar_built, w[1], w[2])
    /\ UNCHANGED <<asked_from_ms, next_time>>
    /\ UNCHANGED notCal

\* calendar.next_available_time(from_ms)
NextAvailableTime ==
    /\ asked_from_ms = None
    /\ \E t \in 0..CalHorizon :
          /\ asked_from_ms' = Some(t)
          /\ next_time' = Some(next_available_time(calendar_built, t))
    /\ UNCHANGED calendar_built
    /\ UNCHANGED notCal

----------------------------------------------------------------------------
(* models/constraint.rs *)

\* TransitionMatrixCollection::get_for_resource: the first matrix of the
\* resource
get_for_resource(coll, resource_id) ==
    LET hits == { i \in DOMAIN coll.matrices :
                    coll.matrices[i].resource_id = resource_id }
    IN  IF hits = {} THEN None
        ELSE Some(coll.matrices[CHOOSE i \in hits : \A j \in hits : i <= j])

\* TransitionMatrix::get_transition
get_transition(m, from, to) ==
    IF <<from, to>> \in DOMAIN m.transitions
    THEN m.transitions[<<from, to>>]
    ELSE m.default_ms

\* TransitionMatrixCollection::get_transition_time
get_transition_time(coll, resource_id, from, to) ==
    LET m == get_for_resource(coll, resource_id)
    IN  IF IsSome(m) THEN get_transition(Unwrap(m), from, to) ELSE 0

----------------------------------------------------------------------------
(* models/activity.rs *)

\* ActivityDuration::total_ms
total_ms(d) == d.setup_ms + d.process_ms + d.teardown_ms

\* Activity::candidate_resources: the requirements' candidate lists,
\* concatenated in order
RECURSIVE FlatCandidates(_)
FlatCandidates(reqs) ==
    IF reqs = <<>> THEN <<>>
    ELSE Head(reqs).candidates \o FlatCandidates(Tail(reqs))

candidate_resources(activity) == FlatCandidates(activity.resource_requirements)

----------------------------------------------------------------------------
(* models/schedule.rs *)

\* Schedule::new
NewSchedule == [assignments |-> <<>>, makespan_ms |-> 0, violations |-> <<>>]

\* Schedule::add_assignment
add_assignment(s, assignment) ==
    [s EXCEPT !.makespan_ms = IF assignment.end_ms > s.makespan_ms
                              THEN assignment.end_ms
                              ELSE s.makespan_ms,
              !.assignments = Append(s.assignments, assignment)]

\* Schedule::add_violation
add_violation(s, violation) ==
    [s EXCEPT !.violations = Append(s.violations, violation)]

----------------------------------------------------------------------------
(* validation.rs *)

\* ValidationResult::ok
ValidationOk == [is_valid |-> TRUE, errors |-> <<>>, warnings |-> <<>>]

\* ValidationResult::with_error; a message is the tuple of the parts that
\* format! joins
with_error(result, code, message) ==
    [result EXCEPT
        !.is_valid = FALSE,
        !.errors = Append(@, [code |-> code, message |-> message, entity_id |-> None])]

\* the loops of lines 48-54 and 57-66: ids is what is left of the list,
\* seen the HashSet so far; an id whose insert fails is reported
RECURSIVE ReportDuplicates(_, _, _, _, _)
ReportDuplicates(ids, seen, result, code, text) ==
    IF ids = <<>> THEN result
    ELSE ReportDuplicates(Tail(ids), seen \cup {Head(ids)},
            IF Head(ids) \in seen
            THEN with_error(result, code, <<text, Head(ids)>>)
            ELSE result,
            code, text)

\* the pairs (activity id, candidate) in the order the loops of lines 69-72
\* visit them
RECURSIVE ActivityRefs(_)
ActivityRefs(acts) ==
    IF acts = <<>> THEN <<>>
    ELSE [k \in DOMAIN candidate_resources(Head(acts)) |->
             <<Head(acts).id, candidate_resources(Head(acts))[k]>>]
         \o ActivityRefs(Tail(acts))

RECURSIVE TaskRefs(_)
TaskRefs(ts) ==
    IF ts = <<>> THEN <<>>
    ELSE ActivityRefs(Head(ts).activities) \o TaskRefs(Tail(ts))

\* lines 69-83: a candidate that is not among the resource ids is reported
RECURSIVE ReportUnknown(_, _, _)
ReportUnknown(refs, resource_ids, result) ==
    IF refs = <<>> THEN result
    ELSE ReportUnknown(Tail(refs), resource_ids,
            IF Head(refs)[2] \notin resource_ids
            THEN with_error(result, "INVALID_RESOURCE_REF",
                            <<"Activity ", Head(refs)[1],
                              " references unknown resource ", Head(refs)[2]>>)
            ELSE result)

\* lines 45-66: the duplicate checks
DuplicatesReported(ts, res) ==
    ReportDuplicates([i \in DOMAIN res |-> res[i].id], {},
        ReportDuplicates([i \in DOMAIN ts |-> ts[i].id], {}, ValidationOk,
                         "DUPLICATE_TASK", "Duplicate task ID: "),
        "DUPLICATE_RESOURCE", "Duplicate resource ID: ")

\* a faulty validate_input that does not look at the activities
validate_input_without_refs(ts, res) == DuplicatesReported(ts, res)

\* validate_input
validate_input(ts, res) ==
    ReportUnknown(TaskRefs(ts), {res[i].id : i \in DOMAIN res},
                  DuplicatesReported(ts, res))

\* validate_input(tasks, resources)
ValidateInput ==
    /\ validation = None
    /\ validation' = Some(validate_input(tasks, resources))
    /\ UNCHANGED schedInputs
    /\ UNCHANGED notVal

----------------------------------------------------------------------------
(* dispatching: rule scores *)

\* A RuleScore is an f64.  The finite scores of the model are whole numbers
\* of steps, a step being a little more than half of the engine's epsilon
\* 1e-9: two scores differ by more than epsilon exactly when they are more
\* than one step apart.  Beside them stand f64::MAX, +infinity and NaN.
Num(n) == [kind |-> "num", value |-> n]
F64Max == [kind |-> "max", value |-> 0]
PosInf == [kind |-> "inf", value |-> 0]
NaN == [kind |-> "nan", value |-> 0]

\* RuleEngine::new: epsilon: 1e-9, in steps
epsilon == 1

\* a millisecond, and a unit of a queue length, are far more than epsilon
UnitSteps == epsilon + 1

\* f64 multiplication of a score by a weight that is a whole number >= 0:
\* f64::MAX times 2 or more overflows to +infinity
ScoreTimes(score, weight) ==
    CASE score.kind = "nan" -> NaN
      [] score.kind = "num" -> Num(score.value * weight)
      [] score.kind = "max" -> IF weight = 0 THEN Num(0)
                               ELSE IF weight = 1 THEN F64Max ELSE PosInf
      [] score.kind = "inf" -> IF weight = 0 THEN NaN ELSE PosInf

\* f64 addition: f64::MAX absorbs a number of the model's size
ScorePlus(a, b) ==
    CASE a.kind = "nan" \/ b.kind = "nan" -> NaN
      [] a.kind = "inf" \/ b.kind = "inf" -> PosInf
      [] a.kind = "max" /\ b.kind = "max" -> PosInf
      [] a.kind = "max" \/ b.kind = "max" -> F64Max
      [] OTHER -> Num(a.value + b.value)

\* scores.iter().sum()
RECURSIVE ScoreSum(_)
ScoreSum(scores) ==
    IF scores = <<>> THEN Num(0)
    ELSE ScorePlus(ScoreSum(SubSeq(scores, 1, Len(scores) - 1)), scores[Len(scores)])

\* the place of a score that is no NaN in the order of f64
ScoreRank(score) ==
    CASE score.kind = "num" -> 0
      [] score.kind = "max" -> 1
      [] score.kind = "inf" -> 2

\* a.partial_cmp(b): "None" when either is NaN
partial_cmp(a, b) ==
    IF a.kind = "nan" \/ b.kind = "nan" THEN "None"
    ELSE IF ScoreRank(a) < ScoreRank(b) THEN "Less"
    ELSE IF ScoreRank(a) > ScoreRank(b) THEN "Greater"
    ELSE IF a.kind # "num" THEN "Equal"
    ELSE IF a.value < b.value THEN "Less"
    ELSE IF a.value > b.value THEN "Greater"
    ELSE "Equal"

\* (score_a - score_b).abs() > self.epsilon (engine.rs line 145): false
\* when either is NaN, and when both are f64::MAX
DiffersBeyondEpsilon(a, b) ==
    CASE a.kind = "nan" \/ b.kind = "nan" -> FALSE
      [] a.kind = "num" /\ b.kind = "num" ->
            (IF a.value >= b.value THEN a.value - b.value ELSE b.value - a.value)
               > epsilon
      [] OTHER -> a.kind # b.kind

----------------------------------------------------------------------------
(* dispatching/rules *)

\* a faulty Edd::evaluate that scores a missing deadline 0.0
Edd_evaluate_zero_default(task, ctx) ==
    IF IsSome(task.deadline) THEN Num(Unwrap(task.deadline) * UnitSteps) ELSE Num(0)

\* Edd::evaluate: the deadline in milliseconds, f64::MAX without one
Edd_evaluate(task, ctx) ==
    IF IsSome(task.deadline) THEN Num(Unwrap(task.deadline) * UnitSteps) ELSE F64Max

\* Winq::evaluate: the queue length the context has for the task, else 0
Winq_evaluate(task, ctx) ==
    IF task.id \in DOMAIN ctx.next_queue_length
    THEN Num(ctx.next_queue_length[task.id] * UnitSteps)
    ELSE Num(0)

\* the fold of min_by(|a, b| a.partial_cmp(b).unwrap()) over the
\* utilizations found (queue_load.rs line 93): every item after the first
\* is compared with the least so far, and a comparison with a NaN panics
RECURSIVE MinByPartialCmp(_, _)
MinByPartialCmp(least, rest) ==
    IF rest = <<>> THEN least
    ELSE IF partial_cmp(least, Head(rest)) = "None" THEN [kind |-> "panic", value |-> 0]
    ELSE IF partial_cmp(least, Head(rest)) = "Greater"
         THEN MinByPartialCmp(Head(rest), Tail(rest))
         ELSE MinByPartialCmp(least, Tail(rest))

\* Lpul::evaluate: the least utilization the context has for a candidate of
\* the task's first activity; 0.0 with no activity or no utilization known
Lpul_evaluate(task, ctx) ==
    IF task.activities = <<>> THEN Num(0)
    ELSE LET candidates == candidate_resources(task.activities[1])
             known == SelectSeq(candidates,
                                LAMBDA r : r \in DOMAIN ctx.resource_utilization)
             found == [k \in DOMAIN known |-> ctx.resource_utilization[known[k]]]
         IN  IF found = <<>> THEN Num(0)
             ELSE MinByPartialCmp(Head(found), Tail(found))

\* wr.rule.evaluate(task, context)
rule_evaluate(rule, task, ctx) ==
    CASE rule = "EDD" -> Edd_evaluate(task, ctx)
      [] rule = "WINQ" -> Winq_evaluate(task, ctx)
      [] rule = "LPUL" -> Lpul_evaluate(task, ctx)

----------------------------------------------------------------------------
(* dispatching/engine.rs *)

\* RuleEngine::new
NewRuleEngine == [rules |-> <<>>, mode |-> "Sequential", tie_breaker |-> "NextRule"]

\* WeightedRule::new and RuleEngine::with_weighted_rule
with_weighted_rule(e, rule, weight) ==
    [e EXCEPT !.rules = Append(@, [rule |-> rule, weight |-> weight])]

\* RuleEngine::with_rule
with_rule(e, rule) == with_weighted_rule(e, rule, 1)

\* RuleEngine::with_tie_breaker
with_tie_breaker(e, rule) == with_weighted_rule(e, rule, 0)

\* RuleEngine::with_mode
with_mode(e, mode) == [e EXCEPT !.mode = mode]

\* RuleEngine::with_final_tie_breaker
with_final_tie_breaker(e, tie_breaker) == [e EXCEPT !.tie_breaker = tie_breaker]

\* RuleEngine::evaluate_raw
evaluate_raw(e, task, ctx) ==
    [r \in DOMAIN e.rules |-> rule_evaluate(e.rules[r].rule, task, ctx)]

\* a faulty evaluate that forgets the weights
evaluate_unweighted(e, task, ctx) == evaluate_raw(e, task, ctx)

\* RuleEngine::evaluate: a rule that panics does so before the product
evaluate(e, task, ctx) ==
    [r \in DOMAIN e.rules |->
        LET score == rule_evaluate(e.rules[r].rule, task, ctx)
        IN  IF score.kind = "panic" THEN score ELSE ScoreTimes(score, e.rules[r].weight)]

\* Ord for usize and for String: a task id is the sequence of its bytes
RECURSIVE BytesCmp(_, _)
BytesCmp(a, b) ==
    IF a = <<>> /\ b = <<>> THEN "Equal"
    ELSE IF a = <<>> THEN "Less"
    ELSE IF b = <<>> THEN "Greater"
    ELSE IF Head(a) < Head(b) THEN "Less"
    ELSE IF Head(a) > Head(b) THEN "Greater"
    ELSE BytesCmp(Tail(a), Tail(b))

\* task.id.as_bytes().iter().map(|&b| b as usize).sum()
RECURSIVE ByteSum(_)
ByteSum(id) == IF id = <<>> THEN 0 ELSE Head(id) + ByteSum(Tail(id))

\* the final tie-breaker (lines 150-159)
FinalTieBreak(tie_breaker, id_a, id_b) ==
    CASE tie_breaker = "NextRule" -> "Equal"
      [] tie_breaker = "Random" ->
            IF ByteSum(id_a) < ByteSum(id_b) THEN "Less"
            ELSE IF ByteSum(id_a) > ByteSum(id_b) THEN "Greater" ELSE "Equal"
      [] tie_breaker = "ById" -> BytesCmp(id_a, id_b)

\* the comparison of Sequential mode (lines 142-160): the first rule whose
\* scores differ by more than epsilon decides, else the final tie-breaker
RECURSIVE SequentialCmp(_, _, _, _, _)
SequentialCmp(scores_a, scores_b, tie_breaker, id_a, id_b) ==
    IF scores_a = <<>> \/ scores_b = <<>> THEN FinalTieBreak(tie_breaker, id_a, id_b)
    ELSE IF DiffersBeyondEpsilon(Head(scores_a), Head(scores_b))
         THEN partial_cmp(Head(scores_a), Head(scores_b))
         ELSE SequentialCmp(Tail(scores_a), Tail(scores_b), tie_breaker, id_a, id_b)

\* the comparison of Weighted mode (lines 163-167); "None" is what unwrap
\* panics on
WeightedCmp(scores_a, scores_b) ==
    partial_cmp(ScoreSum(scores_a), ScoreSum(scores_b))

\* slice::sort_by on a slice of at most 20 items is an insertion sort: each
\* item in turn moves left past the items it is less than.  x is the item
\* moving, k the number of items of pre still on its left; cmp[<<a, b>>] is
\* what the closure answers for the items at input positions a and b.
RECURSIVE ShiftLeft(_, _, _, _)
ShiftLeft(pre, k, x, cmp) ==
    IF k = 0 THEN [panicked |-> FALSE, order |-> <<x>> \o pre]
    ELSE IF cmp[<<x, pre[k]>>] = "None" THEN [panicked |-> TRUE, order |-> <<>>]
    ELSE IF cmp[<<x, pre[k]>>] = "Less" THEN ShiftLeft(pre, k - 1, x, cmp)
    ELSE [panicked |-> FALSE,
          order |-> SubSeq(pre, 1, k) \o <<x>> \o SubSeq(pre, k + 1, Len(pre))]

RECURSIVE InsertionSort(_, _, _)
InsertionSort(done, rest, cmp) ==
    IF rest = <<>> THEN [panicked |-> FALSE, order |-> done]
    ELSE LET placed == ShiftLeft(done, Len(done), Head(rest), cmp)
         IN  IF placed.panicked THEN placed
             ELSE InsertionSort(placed.order, Tail(rest), cmp)

\* Older standard libraries sorted a short slice from its right end
\* (insert_head): each item in turn, the last but one first, moves
\* right past the items that are less than it.  k is the number of items of
\* post already passed.
RECURSIVE ShiftRight(_, _, _, _)
ShiftRight(post, k, x, cmp) ==
    IF k = Len(post) THEN [panicked |-> FALSE, order |-> post \o <<x>>]
    ELSE IF cmp[<<post[k + 1], x>>] = "None" THEN [panicked |-> TRUE, order |-> <<>>]
    ELSE IF cmp[<<post[k + 1], x>>] = "Less" THEN ShiftRight(post, k + 1, x, cmp)
    ELSE [panicked |-> FALSE,
          order |-> SubSeq(post, 1, k) \o <<x>> \o SubSeq(post, k + 1, Len(post))]

RECURSIVE InsertionSortFromRight(_, _, _)
InsertionSortFromRight(rest, done, cmp) ==
    IF rest = <<>> THEN [panicked |-> FALSE, order |-> done]
    ELSE LET placed == ShiftRight(done, 0, rest[Len(rest)], cmp)
         IN  IF placed.panicked THEN placed
             ELSE InsertionSortFromRight(SubSeq(rest, 1, Len(rest) - 1),
                                         placed.order, cmp)

\* the standard libraries the crate may be built with
SortBuilds == {"insert_tail", "insert_head"}

\* slice::sort_by
sort_by(items, cmp, build) ==
    IF build = "insert_tail" THEN InsertionSort(<<>>, items, cmp)
    ELSE InsertionSortFromRight(items, <<>>, cmp)

\* the scores of lines 128-138, by input position
Scored(e, ts, ctx) ==
    [i \in DOMAIN ts |->
        IF e.mode = "Sequential" THEN evaluate_raw(e, ts[i], ctx)
        ELSE evaluate(e, ts[i], ctx)]

\* the comparisons of lines 140-169, by pair of input positions
Comparisons(e, ts, scored) ==
    [pair \in (DOMAIN ts) \X (DOMAIN ts) |->
        IF e.mode = "Sequential"
        THEN SequentialCmp(scored[pair[1]], scored[pair[2]], e.tie_breaker,
                           ts[pair[1]].id, ts[pair[2]].id)
        ELSE WeightedCmp(scored[pair[1]], scored[pair[2]])]

\* a faulty sort without the early return of line 124
sort_always_scored(e, ts, ctx, build) ==
    LET scored == Scored(e, ts, ctx)
    IN  IF \E i \in DOMAIN ts : \E r \in DOMAIN scored[i] :
               scored[i][r].kind = "panic"
        THEN [panicked |-> TRUE, order |-> <<>>]
        ELSE sort_by([i \in DOMAIN ts |-> i], Comparisons(e, ts, scored), build)

\* RuleEngine::sort: the input positions in the order returned, or that the
\* call panicked
sort(e, ts, ctx, build) ==
    IF ts = <<>> \/ e.rules = <<>>
    THEN [panicked |-> FALSE, order |-> [i \in DOMAIN ts |-> i]]
    ELSE LET scored == Scored(e, ts, ctx)
         IN  IF \E i \in DOMAIN ts : \E r \in DOMAIN scored[i] :
                    scored[i][r].kind = "panic"
             THEN [panicked |-> TRUE, order |-> <<>>]
             ELSE sort_by([i \in DOMAIN ts |-> i], Comparisons(e, ts, scored), build)

\* RuleEngine::select_best: the first of the sorted tasks
select_best(e, ts, ctx, build) ==
    LET sorted == sort(e, ts, ctx, build)
    IN  [panicked |-> sorted.panicked,
         best |-> IF sorted.panicked \/ sorted.order = <<>> THEN None
                  ELSE Some(sorted.order[1])]

\* engine.sort(&tasks, &context)
Sort ==
    /\ sort_result = None
    /\ \E build \in SortBuilds :
          sort_result' = Some(sort(engine, tasks, context, build))
    /\ UNCHANGED <<tasks, resources, engine, context, best_result>>
    /\ UNCHANGED notEng

\* engine.select_best(&tasks, &context)
SelectBestTask ==
    /\ best_result = None
    /\ \E build \in SortBuilds :
          best_result' = Some(select_best(engine, tasks, context, build))
    /\ UNCHANGED <<tasks, resources, engine, context, sort_result>>
    /\ UNCHANGED notEng

----------------------------------------------------------------------------
(* scheduler/simple.rs: SimpleScheduler::schedule *)

\* a faulty line 75 that leaves the tasks in input order
RECURSIVE InInputOrder(_, _)
InInputOrder(ts, rest) ==
    IF rest = {} THEN <<>>
    ELSE LET first == CHOOSE i \in rest : \A j \in rest : i <= j
         IN  <<first>> \o InInputOrder(ts, rest \ {first})

\* sorted_tasks.sort_by(|a, b| b.priority.cmp(&a.priority)): a stable sort,
\* so the result lists the tasks by descending priority and, among equal
\* priorities, by ascending input position.  rest is the set of positions
\* not yet emitted.
RECURSIVE SortByPriorityDesc(_, _)
SortByPriorityDesc(ts, rest) ==
    IF rest = {} THEN <<>>
    ELSE LET first == CHOOSE i \in rest :
                        \A j \in rest :
                            \/ ts[i].priority > ts[j].priority
                            \/ ts[i].priority = ts[j].priority /\ i <= j
         IN  <<first>> \o SortByPriorityDesc(ts, rest \ {first})

\* a faulty line 94 that forgets when the resource becomes available
ActualStartIgnoringResource(available, cursor) == cursor

\* line 94: available.max(task_start)
ActualStart(available, cursor) == Max(available, cursor)

\* a faulty line 95 that compares with <=, so that of the candidates that
\* start earliest the last one listed is taken
RECURSIVE SelectLastBest(_, _, _, _)
SelectLastBest(candidates, available, cursor, best) ==
    IF candidates = <<>> THEN best
    ELSE LET candidate == Head(candidates)
             actual_start == ActualStart(available[candidate], cursor)
             better == candidate \in DOMAIN available
                       /\ (best.resource = None \/ actual_start <= best.start)
         IN  SelectLastBest(Tail(candidates), available, cursor,
                            IF better
                            THEN [resource |-> Some(candidate), start |-> actual_start]
                            ELSE best)

\* the loop over the candidates (lines 89-100): best is
\* [resource |-> Option<id>, start |-> i64].  best_start starts at i64::MAX
\* and every time of the model is below it, so "actual_start < best_start"
\* is true while no resource has been chosen.
RECURSIVE SelectBest(_, _, _, _)
SelectBest(candidates, available, cursor, best) ==
    IF candidates = <<>> THEN best
    ELSE LET candidate == Head(candidates)
             actual_start == ActualStart(available[candidate], cursor)
             better == candidate \in DOMAIN available
                       /\ (best.resource = None \/ actual_start < best.start)
         IN  SelectBest(Tail(candidates), available, cursor,
                        IF better
                        THEN [resource |-> Some(candidate), start |-> actual_start]
                        ELSE best)

NoBest == [resource |-> None, start |-> 0]

\* a faulty line 105 that looks the transition up from the category of this
\* task to the category of the task before
SetupTimeReversed(resource_id, category) ==
    IF resource_id \in DOMAIN last_category
    THEN get_transition_time(transition_matrices, resource_id,
                             category, last_category[resource_id])
    ELSE 0

\* the setup time (lines 104-112)
SetupTime(resource_id, category) ==
    IF resource_id \in DOMAIN last_category
    THEN get_transition_time(transition_matrices, resource_id,
                             last_category[resource_id], category)
    ELSE 0

\* a faulty line 115 that leaves the setup out of the end
EndTimeWithoutSetup(start, setup_time, activity) ==
    start + activity.duration.process_ms

\* the end of the assignment (line 115)
EndTime(start, setup_time, activity) ==
    start + setup_time + activity.duration.process_ms

\* the task cursor at the start of a task (line 79)
InitialTaskStart(task) == start_time_ms

CurTask == tasks[sorted_tasks[task_pos]]
CurActivity == CurTask.activities[act_pos]

\* a faulty line 83 that offers every provided resource to the activity
CandidatesAnyResource(activity) == [i \in DOMAIN resources |-> resources[i].id]

\* line 83: the candidates of the activity being placed
Candidates(activity) == candidate_resources(activity)

\* a faulty loop of lines 92-100 that looks at the first candidate only
CurBestOfFirstCandidate ==
    SelectBest(IF Candidates(CurActivity) = <<>> THEN <<>>
               ELSE <<Head(Candidates(CurActivity))>>,
               resource_available, task_start, NoBest)

\* lines 89-100 for the activity being placed
CurBest ==
    SelectBest(Candidates(CurActivity), resource_available, task_start, NoBest)

\* lines 64-75: the registers and the sorted task list
ScheduleBegin ==
    /\ pc = "start"
    /\ schedule' = NewSchedule
    /\ resource_available' =
          [id \in {resources[i].id : i \in DOMAIN resources} |-> start_time_ms]
    /\ last_category' = <<>>
    /\ sorted_tasks' = SortByPriorityDesc(tasks, DOMAIN tasks)
    /\ task_pos' = 0
    /\ pc' = "task"
    /\ UNCHANGED <<schedInputs, act_pos, task_start>>
    /\ UNCHANGED notSched

\* lines 78-79: the outer loop takes its next task, at the start of the
\* loop or when the inner loop has passed the last activity (line 134)
NextTask ==
    /\ \/ pc = "task"
       \/ pc = "activity" /\ act_pos > Len(CurTask.activities)
    /\ task_pos < Len(sorted_tasks)
    /\ task_pos' = task_pos + 1
    /\ task_start' = InitialTaskStart(tasks[sorted_tasks[task_pos + 1]])
    /\ act_pos' = 1
    /\ pc' = "activity"
    /\ UNCHANGED <<schedInputs, sorted_tasks, resource_available,
                   last_category, schedule>>
    /\ UNCHANGED notSched

\* a faulty line 85 that leaves the loop over the activities of the task
\* (break for continue)
SkipRestOfTask ==
    /\ pc = "activity"
    /\ act_pos <= Len(CurTask.activities)
    /\ \/ Candidates(CurActivity) = <<>>
       \/ CurBest.resource = None
    /\ act_pos' = Len(CurTask.activities) + 1
    /\ UNCHANGED <<schedInputs, pc, sorted_tasks, task_pos, task_start,
                   resource_available, last_category, schedule>>
    /\ UNCHANGED notSched

\* lines 81-86 and 102: an activity with no candidate, or none of whose
\* candidates is a provided resource, is passed over
SkipActivity ==
    /\ pc = "activity"
    /\ act_pos <= Len(CurTask.activities)
    /\ \/ Candidates(CurActivity) = <<>>
       \/ CurBest.resource = None
    /\ act_pos' = act_pos + 1
    /\ UNCHANGED <<schedInputs, pc, sorted_tasks, task_pos, task_start,
                   resource_available, last_category, schedule>>
    /\ UNCHANGED notSched

\* lines 88-133: the activity is placed on the best resource
PlaceActivity ==
    /\ pc = "activity"
    /\ act_pos <= Len(CurTask.activities)
    /\ Candidates(CurActivity) # <<>>
    /\ CurBest.resource # None
    /\ LET resource_id == Unwrap(CurBest.resource)
           setup_time == SetupTime(resource_id, CurTask.category)
           start == CurBest.start
           end == EndTime(start, setup_time, CurActivity)
           assignment == [activity_id |-> CurActivity.id,
                          task_id |-> CurTask.id,
                          resource_id |-> resource_id,
                          start_ms |-> start,
                          end_ms |-> end,
                          setup_ms |-> setup_time]
       IN  /\ schedule' = add_assignment(schedule, assignment)
           /\ resource_available' = [resource_available EXCEPT ![resource_id] = end]
           /\ last_category' =
                 [id \in DOMAIN last_category \cup {resource_id} |->
                     IF id = resource_id THEN CurTask.category ELSE last_category[id]]
           /\ task_start' = end
    /\ act_pos' = act_pos + 1
    /\ UNCHANGED <<schedInputs, pc, sorted_tasks, task_pos>>
    /\ UNCHANGED notSched

\* line 137: both loops have ended and the schedule is returned
Return ==
    /\ \/ pc = "task"
       \/ pc = "activity" /\ act_pos > Len(CurTask.activities)
    /\ task_pos >= Len(sorted_tasks)
    /\ pc' = "done"
    /\ UNCHANGED <<schedInputs, sorted_tasks, task_pos, act_pos, task_start,
                   resource_available, last_category, schedule>>
    /\ UNCHANGED notSched

----------------------------------------------------------------------------
(* ga/chromosome.rs *)

\* f64::INFINITY and a finite fitness
INFINITY == [inf |-> TRUE, value |-> 0]
Finite(v) == [inf |-> FALSE, value |-> v]

\* the String::new() a child's positions start with
EmptyString == ""

\* the number of positions of s that hold x
Count(s, x) == Cardinality({i \in DOMAIN s : s[i] = x})

\* the per-task counts of create_random_osv (lines 118-124) and of is_valid
\* (lines 233-236): a HashMap keyed by the task ids that occur
task_activity_counts(acts) ==
    [t \in {acts[i].task_id : i \in DOMAIN acts} |->
        Cardinality({i \in DOMAIN acts : acts[i].task_id = t})]

\* the activity index of create_random_osv (line 123): a later activity
\* with the same (task_id, sequence) replaces an earlier one
activity_index(acts) ==
    [key \in {<<acts[i].task_id, acts[i].sequence>> : i \in DOMAIN acts} |->
        CHOOSE i \in DOMAIN acts :
            /\ <<acts[i].task_id, acts[i].sequence>> = key
            /\ \A j \in DOMAIN acts :
                  <<acts[j].task_id, acts[j].sequence>> = key => j <= i]

\* lines 127-132: each task id pushed once per activity, the tasks in the
\* order the HashMap iterates them
RECURSIVE OsvBlocks(_, _)
OsvBlocks(order, counts) ==
    IF order = <<>> THEN <<>>
    ELSE [k \in 1..counts[Head(order)] |-> Head(order)]
            \o OsvBlocks(Tail(order), counts)

\* the orders a HashMap with the keys K may iterate them in
KeyOrders(K) ==
    { o \in [1..Cardinality(K) -> K] : \A i, j \in DOMAIN o : i # j => o[i] # o[j] }

\* osv.shuffle(rng) (line 134): every rearrangement of osv
Shuffles(osv) ==
    { [i \in DOMAIN osv |-> osv[p[i]]] : p \in Permutations(DOMAIN osv) }

\* the OSVs create_random_osv may return
RandomOsvs(acts) ==
    LET counts == task_activity_counts(acts)
    IN  UNION { Shuffles(OsvBlocks(order, counts)) : order \in KeyOrders(DOMAIN counts) }

\* the MAVs create_random_mav may return (lines 139-150)
RandomMavs(acts) ==
    { m \in [DOMAIN acts -> {"NONE"} \cup UNION {Range(acts[i].candidates) : i \in DOMAIN acts}] :
        \A i \in DOMAIN acts :
            IF acts[i].candidates = <<>> THEN m[i] = "NONE"
            ELSE m[i] \in Range(acts[i].candidates) }

\* Iterator::min_by_key over the positions idx of s, with keys that are
\* Option<i64> where None stands for i64::MAX: the first of the least
KeyLess(a, b) == IsSome(a) /\ (b = None \/ Unwrap(a) < Unwrap(b))
FirstMinIndex(idx, key) ==
    CHOOSE i \in idx :
        \A j \in idx : KeyLess(key[i], key[j]) \/ (~ KeyLess(key[j], key[i]) /\ i <= j)

\* a faulty selection that looks for the least loaded primary resource
\* among all of them, whether or not it is a candidate of the activity
LeastLoadedAnywhere(candidates, resource_load) ==
    IF DOMAIN resource_load = {} THEN candidates[1]
    ELSE CHOOSE r \in DOMAIN resource_load :
            \A q \in DOMAIN resource_load : resource_load[r] <= resource_load[q]

\* lines 174-180: the first least loaded of the candidates that are primary
\* resources, else the first candidate
LeastLoaded(candidates, resource_load) ==
    LET known == {i \in DOMAIN candidates : candidates[i] \in DOMAIN resource_load}
    IN  IF known = {} THEN candidates[1]
        ELSE candidates[FirstMinIndex(known,
                 [i \in DOMAIN candidates |->
                     IF i \in known THEN Some(resource_load[candidates[i]]) ELSE None])]

\* create_load_balanced_mav, lines 166-188, from the loads so far
RECURSIVE LoadBalancedFrom(_, _)
LoadBalancedFrom(acts, resource_load) ==
    IF acts = <<>> THEN <<>>
    ELSE LET act == Head(acts)
         IN  IF act.candidates = <<>>
             THEN <<"NONE">> \o LoadBalancedFrom(Tail(acts), resource_load)
             ELSE LET best == LeastLoaded(act.candidates, resource_load)
                      load == IF best \in DOMAIN resource_load
                              THEN [resource_load EXCEPT
                                       ![best] = @ + act.process_time_ms]
                              ELSE resource_load
                  IN  <<best>> \o LoadBalancedFrom(Tail(acts), load)

\* create_load_balanced_mav: the loads start at 0 for the primary resources
create_load_balanced_mav(acts, res) ==
    LoadBalancedFrom(acts,
        [id \in {res[i].id : i \in {j \in DOMAIN res : res[j].resource_type = "Primary"}}
            |-> 0])

\* create_shortest_time_mav (lines 88-111)
create_shortest_time_mav(acts, times) ==
    [i \in DOMAIN acts |->
        IF acts[i].candidates = <<>> THEN "NONE"
        ELSE LET c == acts[i].candidates
             IN  c[FirstMinIndex(DOMAIN c,
                     [k \in DOMAIN c |->
                         IF <<acts[i].activity_id, c[k]>> \in DOMAIN times
                         THEN Some(times[<<acts[i].activity_id, c[k]>>])
                         ELSE None])]]

MkChromosome(osv, mav, acts) ==
    [osv |-> osv, mav |-> mav, activity_index |-> activity_index(acts),
     fitness |-> INFINITY]

\* Chromosome::random
RandomChromosomes(acts) ==
    { MkChromosome(osv, mav, acts) : osv \in RandomOsvs(acts), mav \in RandomMavs(acts) }

\* Chromosome::with_load_balancing
LoadBalancedChromosomes(acts, res) ==
    { MkChromosome(osv, create_load_balanced_mav(acts, res), acts) :
        osv \in RandomOsvs(acts) }

\* Chromosome::with_shortest_time
ShortestTimeChromosomes(acts, times) ==
    { MkChromosome(osv, create_shortest_time_mav(acts, times), acts) :
        osv \in RandomOsvs(acts) }

\* Chromosome::is_valid
is_valid(c, acts) ==
    /\ Len(c.osv) = Len(acts)
    /\ Len(c.mav) = Len(acts)
    /\ [t \in Range(c.osv) |-> Count(c.osv, t)] = task_activity_counts(acts)
    /\ \A idx \in DOMAIN acts :
          acts[idx].candidates # <<>> => c.mav[idx] \in Range(acts[idx].candidates)

\* a faulty decode_osv that reads the counter before it is incremented
RECURSIVE decode_from_zero(_, _)
decode_from_zero(osv, task_counters) ==
    IF osv = <<>> THEN <<>>
    ELSE LET task_id == Head(osv)
             seq == IF task_id \in DOMAIN task_counters
                    THEN task_counters[task_id] ELSE 0
             counted == [t \in DOMAIN task_counters \cup {task_id} |->
                            IF t = task_id THEN seq + 1 ELSE task_counters[t]]
         IN  <<<<task_id, seq>>>> \o decode_from_zero(Tail(osv), counted)

\* the closure of decode_osv over the rest of the OSV (lines 196-200):
\* task_counters holds the occurrences seen so far, entry().or_insert(0)
\* gives 0 for a task not seen, and the counter is incremented and emitted
RECURSIVE decode_from(_, _)
decode_from(osv, task_counters) ==
    IF osv = <<>> THEN <<>>
    ELSE LET task_id == Head(osv)
             seq == (IF task_id \in DOMAIN task_counters
                     THEN task_counters[task_id] ELSE 0) + 1
             counted == [t \in DOMAIN task_counters \cup {task_id} |->
                            IF t = task_id THEN seq ELSE task_counters[t]]
         IN  <<<<task_id, seq>>>> \o decode_from(Tail(osv), counted)

\* Chromosome::decode_osv
decode_osv(c) == decode_from(c.osv, <<>>)

----------------------------------------------------------------------------
(* ga/operators.rs *)

\* the loop of pox_build_child (lines 158-164): rest is what p2_iter has
\* still to give
RECURSIVE PoxFill(_, _, _)
PoxFill(p1, rest, selected) ==
    IF p1 = <<>> THEN <<>>
    ELSE IF Head(p1) \in selected
         THEN <<Head(p1)>> \o PoxFill(Tail(p1), rest, selected)
         ELSE IF rest # <<>>
              THEN <<Head(rest)>> \o PoxFill(Tail(p1), Tail(rest), selected)
              ELSE <<EmptyString>> \o PoxFill(Tail(p1), rest, selected)

\* a faulty pox_build_child whose scan of the other parent keeps the
\* selected tasks
pox_build_child_unfiltered(p1, p2, selected) == PoxFill(p1, p2, selected)

\* pox_build_child: p2_iter is p2 without the selected tasks
pox_build_child(p1, p2, selected) ==
    PoxFill(p1, SelectSeq(p2, LAMBDA t : t \notin selected), selected)

\* lines 139-144: the child's MAV takes the parent's entries as far as both
\* reach
InheritMav(child_mav, parent_mav) ==
    [i \in DOMAIN child_mav |->
        IF i <= Len(parent_mav) THEN parent_mav[i] ELSE child_mav[i]]

\* lines 132-144: a child is a Chromosome::random whose OSV is replaced and
\* whose MAV takes the parent's entries; of the random chromosome the MAV
\* entries beyond the parent's, the activity index and the fitness remain
Children(osv, parent_mav, acts) ==
    { MkChromosome(osv, mav, acts) :
        mav \in {InheritMav(r, parent_mav) : r \in RandomMavs(acts)} }

\* the pairs of children pox_crossover may return: selected is any
\* non-empty set of task ids (lines 125-127)
pox_crossover(p1, p2, acts) ==
    LET task_ids == {acts[i].task_id : i \in DOMAIN acts}
    IN  IF task_ids = {} THEN {<<p1, p2>>}
        ELSE UNION { Children(pox_build_child(p1.osv, p2.osv, selected), p1.mav, acts)
                        \X Children(pox_build_child(p2.osv, p1.osv, selected), p2.mav, acts) :
                     selected \in (SUBSET task_ids) \ {{}} }

\* jox_crossover
jox_crossover(p1, p2, acts) == pox_crossover(p1, p2, acts)

\* Chromosome::random
BuildRandom ==
    /\ ga_pc = "build"
    /\ \E c \in RandomChromosomes(activities) :
          built' = Append(built, c)
    /\ ga_pc' = IF Len(built) = 1 THEN "cross" ELSE "build"
    /\ UNCHANGED <<gaInputs, children>>
    /\ UNCHANGED notGa

\* Chromosome::with_load_balancing
BuildLoadBalanced ==
    /\ ga_pc = "build"
    /\ \E c \in LoadBalancedChromosomes(activities, ga_resources) :
          built' = Append(built, c)
    /\ ga_pc' = IF Len(built) = 1 THEN "cross" ELSE "build"
    /\ UNCHANGED <<gaInputs, children>>
    /\ UNCHANGED notGa

\* Chromosome::with_shortest_time
BuildShortestTime ==
    /\ ga_pc = "build"
    /\ \E c \in ShortestTimeChromosomes(activities, process_times) :
          built' = Append(built, c)
    /\ ga_pc' = IF Len(built) = 1 THEN "cross" ELSE "build"
    /\ UNCHANGED <<gaInputs, children>>
    /\ UNCHANGED notGa

\* GeneticOperators::crossover on the two chromosomes built
Crossover ==
    /\ ga_pc = "cross"
    /\ operators.crossover_type \in {"POX", "JOX"}
    /\ \E pair \in ( IF operators.crossover_type = "POX"
                     THEN pox_crossover(built[1], built[2], activities)
                     ELSE jox_crossover(built[1], built[2], activities) ) :
          children' = pair
    /\ ga_pc' = "done"
    /\ UNCHANGED <<gaInputs, built>>
    /\ UNCHANGED notGa

\* lox_crossover's cut points (lines 181-188): the first two positions of a
\* shuffle of the positions, the smaller one first; positions count from 1
CutPoints(len) == { cut \in (1..len) \X (1..len) : cut[1] < cut[2] }

\* the loop of lox_build_child that fills the rest from p2 (lines 218-231):
\* items is what the iterator over p2 has still to give, child_idx the
\* position to fill next
RECURSIVE LoxFill(_, _, _, _, _, _)
LoxFill(child, items, child_idx, start, segment, p2) ==
    IF items = <<>> \/ child_idx = start THEN child
    ELSE LET item == Head(items)
             take == /\ \/ item \notin Range(segment)
                        \/ Count(segment, item) < Count(p2, item)
                     /\ child[child_idx] = EmptyString
         IN  IF take
             THEN LoxFill([child EXCEPT ![child_idx] = item], Tail(items),
                          (child_idx % Len(child)) + 1, start, segment, p2)
             ELSE LoxFill(child, Tail(items), child_idx, start, segment, p2)

\* lox_build_child: the segment of p1 copied, then p2 scanned once round from
\* the position after the segment
lox_build_child(p1, p2, start, end) ==
    LET segment == SubSeq(p1, start, end)
        copied == [i \in 1..Len(p1) |->
                      IF start <= i /\ i <= end THEN p1[i] ELSE EmptyString]
        items == [k \in 1..Len(p2) |-> p2[((end + k - 1) % Len(p2)) + 1]]
    IN  LoxFill(copied, items, (end % Len(p1)) + 1, start, segment, p2)

\* the pairs of children lox_crossover may return: each child is a
\* Chromosome::random whose OSV is replaced (lines 193-197)
lox_crossover(p1, p2, acts) ==
    IF Len(p1.osv) < 2 THEN {<<p1, p2>>}
    ELSE UNION { Children(lox_build_child(p1.osv, p2.osv, cut[1], cut[2]), <<>>, acts)
                    \X Children(lox_build_child(p2.osv, p1.osv, cut[1], cut[2]), <<>>, acts) :
                 cut \in CutPoints(Len(p1.osv)) }

\* swap_mutation
swap_mutation(osv) ==
    IF Len(osv) < 2 THEN {osv}
    ELSE { [k \in DOMAIN osv |->
              IF k = i THEN osv[j] ELSE IF k = j THEN osv[i] ELSE osv[k]] :
           i \in DOMAIN osv, j \in DOMAIN osv }

\* osv.remove(from) and osv.insert(to, item) of insert_mutation
RemoveAt(osv, from) == SubSeq(osv, 1, from - 1) \o SubSeq(osv, from + 1, Len(osv))
InsertAt(osv, to, item) == SubSeq(osv, 1, to - 1) \o <<item>> \o SubSeq(osv, to, Len(osv))

\* insert_mutation
insert_mutation(osv) ==
    IF Len(osv) < 2 THEN {osv}
    ELSE { InsertAt(RemoveAt(osv, from), to, osv[from]) :
           from \in DOMAIN osv, to \in DOMAIN osv }

\* invert_mutation: osv[i..=j].reverse() with i <= j after the swap
invert_mutation(osv) ==
    IF Len(osv) < 2 THEN {osv}
    ELSE { [k \in DOMAIN osv |->
              IF ij[1] <= k /\ k <= ij[2] THEN osv[ij[1] + ij[2] - k] ELSE osv[k]] :
           ij \in { x \in (DOMAIN osv) \X (DOMAIN osv) : x[1] <= x[2] } }

\* a faulty line 98 that draws the new resource from the candidates of all
\* the activities
MavChoicesOfAll(acts, idx) == UNION { Range(acts[i].candidates) : i \in DOMAIN acts }

\* line 98: activities[idx].candidates.choose(rng)
MavChoices(acts, idx) == Range(acts[idx].candidates)

\* the MAV mutation of mutate (lines 95-100)
MavMutations(mav, acts) ==
    IF mav = <<>> \/ acts = <<>> THEN {mav}
    ELSE UNION { IF acts[idx].candidates = <<>> THEN {mav}
                 ELSE { [mav EXCEPT ![idx] = c] : c \in MavChoices(acts, idx) } :
                 idx \in 1..(IF Len(mav) <= Len(acts) THEN Len(mav) ELSE Len(acts)) }

\* the OSV mutation of mutate (lines 88-92)
OsvMutations(osv, mutation_type) ==
    CASE mutation_type = "Swap" -> swap_mutation(osv)
      [] mutation_type = "Insert" -> insert_mutation(osv)
      [] mutation_type = "Invert" -> invert_mutation(osv)

\* what GeneticOperators::mutate may leave in the chromosome c
mutate(c, acts, mutation_type) ==
    { [c EXCEPT !.osv = o, !.mav = m, !.fitness = INFINITY] :
        o \in OsvMutations(c.osv, mutation_type), m \in MavMutations(c.mav, acts) }

\* GeneticOperators::crossover, the LOX arm, on the two chromosomes built
CrossoverLox ==
    /\ ga_pc = "cross"
    /\ operators.crossover_type = "LOX"
    /\ \E pair \in lox_crossover(built[1], built[2], activities) :
          children' = pair
    /\ ga_pc' = "done"
    /\ UNCHANGED <<gaInputs, built>>
    /\ UNCHANGED notGa

\* GeneticOperators::mutate on (a clone of) the first chromosome built
Mutate ==
    /\ ga_pc = "cross"
    /\ mutated = None
    /\ \E m \in mutate(built[1], activities, operators.mutation_type) :
          mutated' = Some(m)
    /\ ga_pc' = "done"
    /\ UNCHANGED <<gaInputs, built, children>>
    /\ UNCHANGED notOps

----------------------------------------------------------------------------
(* ga/operators.rs: tournament_selection; ga/population.rs *)

\* a.fitness < b.fitness on f64 values that are finite or +infinity
FitnessLess(a, b) == ~ a.inf /\ (b.inf \/ a.value < b.value)

\* a faulty tournament that returns the individual drawn last
TournamentOfLastDraw(population, draws, best_idx) ==
    IF draws = <<>> THEN best_idx ELSE draws[Len(draws)]

\* tournament_selection for the draws of the random source: the first draw,
\* replaced by each later draw of strictly lower fitness
RECURSIVE TournamentWinner(_, _, _)
TournamentWinner(population, draws, best_idx) ==
    IF draws = <<>> THEN best_idx
    ELSE TournamentWinner(population, Tail(draws),
            IF FitnessLess(population[Head(draws)].fitness, population[best_idx].fitness)
            THEN Head(draws) ELSE best_idx)

\* the individuals tournament_selection may return; gen_range(0..0) on an
\* empty population fails, and there is none
tournament_selection(population, tournament_size) ==
    { population[TournamentWinner(population, Tail(draws), Head(draws))] :
        draws \in [1..Max(tournament_size, 1) -> DOMAIN population] }

\* GeneticOperators::crossover (operators.rs lines 66-78)
crossover(p1, p2, acts, crossover_type) ==
    CASE crossover_type = "POX" -> pox_crossover(p1, p2, acts)
      [] crossover_type = "LOX" -> lox_crossover(p1, p2, acts)
      [] crossover_type = "JOX" -> jox_crossover(p1, p2, acts)

\* build_process_times: a later activity with the same id replaces the
\* times of an earlier one
build_process_times(acts) ==
    [key \in UNION { {<<acts[i].activity_id, r>> : r \in Range(acts[i].candidates)} :
                     i \in DOMAIN acts } |->
        LET last == CHOOSE i \in DOMAIN acts :
                       /\ acts[i].activity_id = key[1]
                       /\ key[2] \in Range(acts[i].candidates)
                       /\ \A j \in DOMAIN acts :
                             (acts[j].activity_id = key[1]
                                /\ key[2] \in Range(acts[j].candidates)) => j <= i
        IN  acts[last].process_time_ms]

\* the individuals Population::new may create (lines 66-91): half of them
\* random, a quarter load balanced, the rest by shortest time
SeededIndividuals(acts, res, population_size) ==
    LET random_count == population_size \div 2
        load_balanced_count == population_size \div 4
        random == RandomChromosomes(acts)
        balanced == LoadBalancedChromosomes(acts, res)
        shortest == ShortestTimeChromosomes(acts, build_process_times(acts))
    IN  { inds \in [1..population_size -> random \cup balanced \cup shortest] :
            \A i \in 1..population_size :
               IF i <= random_count THEN inds[i] \in random
               ELSE IF i <= random_count + load_balanced_count
                    THEN inds[i] \in balanced
                    ELSE inds[i] \in shortest }

\* individuals.sort_by(fitness): a stable sort, lowest fitness first; rest is
\* the set of positions not yet emitted
RECURSIVE SortByFitness(_, _)
SortByFitness(inds, rest) ==
    IF rest = {} THEN <<>>
    ELSE LET first == CHOOSE i \in rest :
                        \A j \in rest :
                            \/ FitnessLess(inds[i].fitness, inds[j].fitness)
                            \/ ~ FitnessLess(inds[j].fitness, inds[i].fitness) /\ i <= j
         IN  <<inds[first]>> \o SortByFitness(inds, rest \ {first})

\* a faulty update that always takes the best of the generation
UpdatedBestAlways(sorted, current) ==
    IF sorted = <<>> THEN current ELSE Some(sorted[1])

\* evolve, lines 113-122: the best individual seen so far
UpdatedBest(sorted, current) ==
    IF sorted = <<>> THEN current
    ELSE IF current = None THEN Some(sorted[1])
    ELSE IF FitnessLess(sorted[1].fitness, Unwrap(current).fitness) THEN Some(sorted[1])
    ELSE current

\* evolve, line 121
UpdatedHistory(sorted, history) ==
    IF sorted = <<>> THEN history ELSE Append(history, sorted[1].fitness)

\* a faulty line 127 that keeps no elite
NoElite(population_size, elite_ratio) == 0

\* evolve, line 127: (population_size as f64 * elite_ratio) as usize, the
\* ratio being the fraction elite_ratio[1] / elite_ratio[2]
EliteCount(population_size, elite_ratio) ==
    (population_size * elite_ratio[1]) \div elite_ratio[2]

\* evolve, lines 128-130
Elite(sorted, p) ==
    SubSeq(sorted, 1,
           IF EliteCount(p.population_size, p.elite_ratio) <= Len(sorted)
           THEN EliteCount(p.population_size, p.elite_ratio) ELSE Len(sorted))

\* evolve, lines 135-144: the pairs of mutated children one turn of the loop
\* may make
ChildPairs(sorted, p, ops, acts) ==
    UNION { UNION { mutate(pair[1], acts, ops.mutation_type)
                       \X mutate(pair[2], acts, ops.mutation_type) :
                    pair \in crossover(parents[1], parents[2], acts, ops.crossover_type) } :
            parents \in tournament_selection(sorted, p.tournament_size)
                           \X tournament_selection(sorted, p.tournament_size) }

\* a faulty push of the children that does not look at the size (lines
\* 147-152 without their conditions)
PushChildrenUnchecked(new_population, pair, population_size) ==
    new_population \o <<pair[1], pair[2]>>

\* a faulty pass of the loop that drops both children
PushNoChild(new_population, pair, population_size) == new_population

\* evolve, lines 147-152
PushChildren(new_population, pair, population_size) ==
    LET with1 == IF Len(new_population) < population_size
                 THEN Append(new_population, pair[1]) ELSE new_population
    IN  IF Len(with1) < population_size THEN Append(with1, pair[2]) ELSE with1

\* evolve, lines 133-153: the populations the loop may end with
RECURSIVE FillPopulation(_, _, _)
FillPopulation(new_population, pairs, population_size) ==
    IF Len(new_population) >= population_size THEN {new_population}
    ELSE UNION { FillPopulation(PushChildren(new_population, pair, population_size),
                                pairs, population_size) : pair \in pairs }

\* the number of turns the loop of lines 133-153 takes
LoopTurns(elite_len, population_size) ==
    IF elite_len >= population_size THEN 0
    ELSE (population_size - elite_len + 1) \div 2

\* is_converged, lines 179-180: (first - last).abs() / first < threshold on
\* f64 values, the threshold being threshold[1] / threshold[2] and first not
\* 0.  With first +infinity the quotient is NaN and the comparison false;
\* with last +infinity it is +infinity or -infinity as first is positive or
\* negative.
RelativeChangeBelow(first, last, threshold) ==
    IF first.inf THEN FALSE
    ELSE IF last.inf THEN first.value < 0
    ELSE LET d == IF first.value >= last.value
                  THEN first.value - last.value ELSE last.value - first.value
         IN  IF first.value > 0
             THEN d * threshold[2] < threshold[1] * first.value
             ELSE d * threshold[2] > threshold[1] * first.value

\* Population::is_converged
is_converged(history, p) ==
    IF Len(history) < p.convergence_generations THEN FALSE
    ELSE LET recent == SubSeq(history, Len(history) - p.convergence_generations + 1,
                              Len(history))
         IN  IF recent = <<>> THEN FALSE
             ELSE IF recent[1] = Finite(0) THEN TRUE
             ELSE RelativeChangeBelow(recent[1], recent[Len(recent)],
                                      p.convergence_threshold)

\* the caller's individual.fitness = f
WithFitness(c, f) == [c EXCEPT !.fitness = f]

\* the fitness values a caller assigns to the individuals, and the values
\* a fitness history is given
FitnessValues == {Finite(v) : v \in 0..MaxFitness} \cup {INFINITY}
HistoryValues == {Finite(v) : v \in (0 - 1)..MaxFitness} \cup {INFINITY}

\* what a single call of tournament_selection or decode_osv leaves alone
notSel == <<schedVars, gaVars, opsVars, popVars, runVars, calVars, valVars, engVars,
            loopVars>>

\* tournament_selection(&individuals, tournament_size, rng): line 52 draws
\* once, the loop of line 54 draws tournament_size - 1 times more
TournamentSelection ==
    /\ selected_idx = None
    /\ individuals # <<>>
    /\ \E draws \in [1..Max(params.tournament_size, 1) -> DOMAIN individuals] :
          /\ sampled' = draws
          /\ selected_idx' = Some(TournamentWinner(individuals, Tail(draws), Head(draws)))
    /\ UNCHANGED decoded
    /\ UNCHANGED notSel

\* individuals[0].decode_osv()
DecodeOsv ==
    /\ decoded = None
    /\ individuals # <<>>
    /\ decoded' = Some(decode_osv(individuals[1]))
    /\ UNCHANGED <<sampled, selected_idx>>
    /\ UNCHANGED notSel

\* Population::new
PopulationNew ==
    /\ pop_pc = "none"
    /\ individuals' \in SeededIndividuals(activities, ga_resources, params.population_size)
    /\ generation' = 0
    /\ pop_best' = None
    /\ fitness_history' = <<>>
    /\ pop_pc' = "new"
    /\ UNCHANGED <<params, crossover_calls, converged>>
    /\ UNCHANGED gaVars
    /\ UNCHANGED notPop

\* the caller evaluates the individuals: individual.fitness = ..
AssignFitness ==
    /\ pop_pc \in {"new", "evolve"}
    /\ generation < MaxGenerations
    /\ individuals # <<>>
    /\ \E f \in [DOMAIN individuals -> FitnessValues] :
          individuals' = [i \in DOMAIN individuals |-> WithFitness(individuals[i], f[i])]
    /\ pop_pc' = "fitness"
    /\ converged' = None
    /\ UNCHANGED <<params, generation, pop_best, fitness_history, crossover_calls>>
    /\ UNCHANGED gaVars
    /\ UNCHANGED notPop

\* Population::evolve.  With no individual and a population_size above 0 the
\* first tournament_selection fails; Population::new never leaves that.
Evolve ==
    /\ pop_pc \in {"new", "fitness", "evolve"}
    /\ generation < MaxGenerations
    /\ LET sorted == SortByFitness(individuals, DOMAIN individuals)
           elite == Elite(sorted, params)
       IN  /\ pop_best' = UpdatedBest(sorted, pop_best)
           /\ fitness_history' = UpdatedHistory(sorted, fitness_history)
           /\ individuals' \in
                 FillPopulation(elite, ChildPairs(sorted, params, operators, activities),
                                params.population_size)
           /\ crossover_calls' = LoopTurns(Len(elite), params.population_size)
    /\ generation' = generation + 1
    /\ pop_pc' = "evolve"
    /\ converged' = None
    /\ UNCHANGED params
    /\ UNCHANGED gaVars
    /\ UNCHANGED notPop

\* what a call of evolve taken step by step leaves alone
notLoop == <<schedVars, opsVars, runVars, calVars, valVars, engVars, selVars>>

\* Population::evolve up to the loop (lines 106-130): the individuals
\* sorted in place, best and fitness_history updated, the elite copied
EvolveBegin ==
    /\ pop_pc \in {"new", "fitness", "evolve"}
    /\ generation < MaxGenerations
    /\ LET sorted == SortByFitness(individuals, DOMAIN individuals)
       IN  /\ individuals' = sorted
           /\ pop_best' = UpdatedBest(sorted, pop_best)
           /\ fitness_history' = UpdatedHistory(sorted, fitness_history)
           /\ evolve_new_population' = Elite(sorted, params)
    /\ pop_pc' = "refill"
    /\ converged' = None
    /\ UNCHANGED <<params, generation, crossover_calls>>
    /\ UNCHANGED gaVars
    /\ UNCHANGED notLoop

\* one pass of the loop of lines 133-153
RefillPass ==
    /\ pop_pc = "refill"
    /\ Len(evolve_new_population) < params.population_size
    /\ individuals # <<>>
    /\ \E pair \in ChildPairs(individuals, params, operators, activities) :
          evolve_new_population' =
              PushChildren(evolve_new_population, pair, params.population_size)
    /\ UNCHANGED popVars
    /\ UNCHANGED gaVars
    /\ UNCHANGED notLoop

\* a pass of the loop over no individual: gen_range(0..0) of line 52 of
\* operators.rs panics
RefillPanics ==
    /\ pop_pc = "refill"
    /\ Len(evolve_new_population) < params.population_size
    /\ individuals = <<>>
    /\ pop_pc' = "panicked"
    /\ UNCHANGED <<individuals, params, generation, pop_best, fitness_history,
                   crossover_calls, converged>>
    /\ UNCHANGED evolve_new_population
    /\ UNCHANGED gaVars
    /\ UNCHANGED notLoop

\* the loop left, lines 155-156
EvolveFinish ==
    /\ pop_pc = "refill"
    /\ Len(evolve_new_population) >= params.population_size
    /\ individuals' = evolve_new_population
    /\ evolve_new_population' = <<>>
    /\ generation' = generation + 1
    /\ pop_pc' = "evolve"
    /\ UNCHANGED <<params, pop_best, fitness_history, crossover_calls, converged>>
    /\ UNCHANGED gaVars
    /\ UNCHANGED notLoop

\* the caller sets population.fitness_history
SetHistory ==
    /\ pop_pc = "new"
    /\ \E n \in 0..MaxWindow : \E h \in [1..n -> HistoryValues] :
          fitness_history' = h
    /\ pop_pc' = "history"
    /\ UNCHANGED <<individuals, params, generation, pop_best, crossover_calls, converged>>
    /\ UNCHANGED gaVars
    /\ UNCHANGED notPop

\* Population::is_converged
IsConverged ==
    /\ pop_pc \in {"history", "evolve"}
    /\ converged = None
    /\ converged' = Some(is_converged(fitness_history, params))
    /\ UNCHANGED <<individuals, params, generation, pop_best, fitness_history,
                   pop_pc, crossover_calls>>
    /\ UNCHANGED gaVars
    /\ UNCHANGED notPop

----------------------------------------------------------------------------
(* Two runs of Population::new with identically seeded random sources *)

\* osv.shuffle(rng) (chromosome.rs line 134) for the draws of the random
\* source: they fix the position p[i] that place i takes its item from
ShuffleWith(osv, p) == [i \in DOMAIN osv |-> osv[p[i]]]

\* create_random_osv for the order in which task_activity_counts iterates
\* (line 128) and the draws of the shuffle
create_random_osv(acts, order, p) ==
    ShuffleWith(OsvBlocks(order, task_activity_counts(acts)), p)

\* create_random_mav for the draws of candidates.choose(rng)
create_random_mav(acts, draw) ==
    [i \in DOMAIN acts |->
        IF acts[i].candidates = <<>> THEN "NONE" ELSE acts[i].candidates[draw[i]]]

\* what a seeded random source yields to Population::new: the draws of one
\* shuffle for each individual and the draws of one create_random_mav for
\* each random individual
RngStreams(acts, population_size) ==
    [shuffle : [1..population_size -> Permutations(DOMAIN acts)],
     choose : [1..(population_size \div 2) ->
                 { d \in [DOMAIN acts -> 1..2] :
                     \A i \in DOMAIN acts : d[i] <= Max(Len(acts[i].candidates), 1) }]]

\* Population::new (population.rs lines 66-91) for the draws of the random
\* source and the order in which the HashMap of each create_random_osv call
\* iterates.  std's HashMap hashes with keys of its own RandomState, which
\* the injected random source does not set.
SeededPopulation(acts, res, population_size, stream, orders) ==
    [i \in 1..population_size |->
        LET osv == create_random_osv(acts, orders[i], stream.shuffle[i])
        IN  IF i <= population_size \div 2
            THEN MkChromosome(osv, create_random_mav(acts, stream.choose[i]), acts)
            ELSE IF i <= population_size \div 2 + population_size \div 4
                 THEN MkChromosome(osv, create_load_balanced_mav(acts, res), acts)
                 ELSE MkChromosome(osv,
                         create_shortest_time_mav(acts, build_process_times(acts)), acts)]

\* the iteration orders of the HashMaps of one run, one for each individual
RunOrders(acts, population_size) ==
    [1..population_size -> KeyOrders(DOMAIN task_activity_counts(acts))]

\* the seed fixes what the random source of both runs yields
SeedRng ==
    /\ rng_seed = None
    /\ \E stream \in RngStreams(activities, params.population_size) :
          rng_seed' = Some(stream)
    /\ UNCHANGED <<run_a, run_b>>
    /\ UNCHANGED gaVars
    /\ UNCHANGED notRun

\* the first run of Population::new
RunA ==
    /\ IsSome(rng_seed)
    /\ run_a = None
    /\ \E orders \in RunOrders(activities, params.population_size) :
          run_a' = Some(SeededPopulation(activities, ga_resources,
                           params.population_size, Unwrap(rng_seed), orders))
    /\ UNCHANGED <<rng_seed, run_b>>
    /\ UNCHANGED gaVars
    /\ UNCHANGED notRun

\* the second run of Population::new
RunB ==
    /\ IsSome(rng_seed)
    /\ run_b = None
    /\ \E orders \in RunOrders(activities, params.population_size) :
          run_b' = Some(SeededPopulation(activities, ga_resources,
                           params.population_size, Unwrap(rng_seed), orders))
    /\ UNCHANGED <<rng_seed, run_a>>
    /\ UNCHANGED gaVars
    /\ UNCHANGED notRun

----------------------------------------------------------------------------
(* The inputs of SimpleScheduler::schedule *)

TaskIds == <<"T1", "T2">>
ResourceIds == <<"M1", "M2">>
Categories == {"a", "b"}

\* ActivityDuration::fixed and ActivityDuration::new
FixedDuration(p) == [setup_ms |-> 0, process_ms |-> p, teardown_ms |-> 0]
NewDuration(s, p, t) == [setup_ms |-> s, process_ms |-> p, teardown_ms |-> t]

\* ResourceRequirement::new(..).with_candidates(c); resource_type, quantity
\* and required_skills are not read by the scheduler
Requirement(c) == [candidates |-> c]

\* the requirement lists an activity may have: none, one requirement with
\* one or two candidates, two requirements
RequirementLists ==
    { <<>>,
      <<Requirement(<<"M1">>)>>,
      <<Requirement(<<"M2">>)>>,
      <<Requirement(<<"M1", "M2">>)>>,
      <<Requirement(<<"M2">>), Requirement(<<"M1">>)>> }

\* Activity::new(id, task_id, sequence).with_duration(d) with the
\* requirements reqs; the id is the pair (task id, position in the task)
MkActivity(task_id, k, sequence, d, reqs) ==
    [id |-> <<task_id, k>>, task_id |-> task_id, sequence |-> sequence,
     duration |-> d, resource_requirements |-> reqs]

\* the activity lists of a task: layout gives the sequence numbers in list
\* order
ActivityLists(task_id, layouts, durations, reqlists) ==
    UNION { { [k \in DOMAIN layout |->
                  MkActivity(task_id, k, layout[k], d[k], r[k])] :
              d \in [DOMAIN layout -> durations],
              r \in [DOMAIN layout -> reqlists] } :
            layout \in layouts }

\* Task::new(id).with_priority(p).with_category(c) with a release time and
\* activities; release_time is an Option of epoch milliseconds
MkTask(id, priority, category, release_time, acts) ==
    [id |-> id, priority |-> priority, category |-> category,
     release_time |-> release_time, activities |-> acts]

\* Resource::new(id, resource_type).with_capacity(c), with or without a
\* calendar; Resource::primary(id) has capacity 1 and no calendar
MkResource(id, resource_type, capacity, calendar) ==
    [id |-> id, resource_type |-> resource_type, capacity |-> capacity,
     calendar |-> calendar]

PlainResource(id) == MkResource(id, "Primary", 1, None)

\* TransitionMatrix::new(name, resource_id).with_default(d) after
\* set_transition(from, to, t)
MkMatrix(resource_id, transitions, default_ms) ==
    [resource_id |-> resource_id, transitions |-> transitions,
     default_ms |-> default_ms]

NoMatrices == [matrices |-> <<>>]

StartTimes == {0 - StartSpan, 0}

\* a calendar with one window [1, 3) and none blocked, and one that is
\* always available but blocked on [0, 1)
WindowCalendar ==
    [time_windows |-> <<TimeWindow(1, 3)>>, blocked_periods |-> <<>>]
BlockedCalendar ==
    [time_windows |-> <<TimeWindow(0 - StartSpan, HorizonMs)>>,
     blocked_periods |-> <<TimeWindow(0, 1)>>]

\* one matrix, for M1: a -> b takes SetupAB, every other pair DefaultSetup
OneMatrix ==
    [matrices |-> <<MkMatrix("M1", (<<"a", "b">> :> SetupAB), DefaultSetup)>>]

MatrixCollections == {NoMatrices, OneMatrix}

\* Placement inputs, scheduled from time 0: the tasks, their activities'
\* candidates and process times, the resources and the matrices vary.  The first
\* task has priority 0 and up to two activities, the second has one
\* activity and any priority and category.
CoreFirstTasks ==
    { MkTask(TaskIds[1], 0, "a", None, acts) :
        acts \in ActivityLists(TaskIds[1], {<<>>, <<1>>, <<1, 2>>},
                               {FixedDuration(p) : p \in 0..MaxDur},
                               RequirementLists) }

CoreSecondTasks ==
    { MkTask(TaskIds[2], p, c, None, acts) :
        p \in 0..MaxPriority, c \in Categories,
        acts \in ActivityLists(TaskIds[2], {<<1>>},
                               {FixedDuration(q) : q \in 0..MaxDur},
                               RequirementLists) }

CoreTaskLists ==
    {<<t>> : t \in CoreFirstTasks}
        \cup {<<t, u>> : t \in CoreFirstTasks, u \in CoreSecondTasks}

CoreResourceLists ==
    { <<PlainResource("M1")>>, <<PlainResource("M1"), PlainResource("M2")>> }

InitCore ==
    /\ tasks \in CoreTaskLists
    /\ resources \in CoreResourceLists
    /\ start_time_ms = 0
    /\ transition_matrices \in MatrixCollections

\* Inputs that vary the start time and the fields the data model has beside
\* those above: sequence numbers out of list order, release times, the
\* teardown part of the duration, capacities and calendars; and the empty
\* input.
ReleaseTimes == {None} \cup {Some(r) : r \in 0..MaxRelease}

AuxDurations == {NewDuration(0, 1, t) : t \in 0..MaxTeardown}

AuxTasks(k) ==
    { MkTask(TaskIds[k], 1, "a", rel, acts) :
        rel \in ReleaseTimes,
        acts \in ActivityLists(TaskIds[k], {<<1>>, <<1, 2>>, <<2, 1>>},
                               AuxDurations,
                               {<<Requirement(<<"M1">>)>>}) }

\* a task of one activity on M1, of any priority
PriorityTasks(k) ==
    { MkTask(TaskIds[k], p, "a", None,
             <<MkActivity(TaskIds[k], 1, 1, FixedDuration(1), <<Requirement(<<"M1">>)>>)>>) :
        p \in 0..MaxPriority }

AuxTaskLists ==
    {<<>>} \cup {<<t>> : t \in AuxTasks(1)}
        \cup {<<t, u>> : t \in PriorityTasks(1), u \in PriorityTasks(2)}

AuxResourceLists ==
    { <<>> } \cup
    { <<MkResource("M1", "Primary", c, cal)>> :
        c \in 1..MaxCapacity,
        cal \in {None, Some(WindowCalendar), Some(BlockedCalendar)} }

InitAux ==
    /\ tasks \in AuxTaskLists
    /\ resources \in AuxResourceLists
    /\ start_time_ms \in StartTimes
    /\ transition_matrices = NoMatrices

SchedIdle ==
    /\ pc = "start"
    /\ sorted_tasks = <<>>
    /\ task_pos = 0
    /\ act_pos = 0
    /\ task_start = 0
    /\ resource_available = <<>>
    /\ last_category = <<>>
    /\ schedule = NewSchedule


----------------------------------------------------------------------------
(* The inputs of the chromosome constructors and the genetic operators *)

ActivityInfo(task_id, activity_id, sequence, candidates, process_time_ms) ==
    [task_id |-> task_id, activity_id |-> activity_id, sequence |-> sequence,
     candidates |-> candidates, process_time_ms |-> process_time_ms]

\* no activity; one activity; two tasks with three activities, each with two
\* candidates; three tasks with four activities, one without candidates
ActivityInfoLists ==
    { <<>>,
      <<ActivityInfo("T1", "A1", 1, <<"R1", "R2">>, 1)>>,
      <<ActivityInfo("T1", "A1", 1, <<"R1", "R2">>, MaxDur + 1),
        ActivityInfo("T1", "A2", 2, <<"R2", "R3">>, MaxDur + 2),
        ActivityInfo("T2", "A3", 1, <<"R1", "R3">>, MaxDur)>>,
      <<ActivityInfo("T1", "A1", 1, <<"R2", "R1">>, MaxDur),
        ActivityInfo("T2", "A2", 1, <<>>, 1),
        ActivityInfo("T1", "A3", 2, <<"R2">>, 1),
        ActivityInfo("T3", "A4", 1, <<"R3">>, 0)>> }

\* the resources and the process-time table given with them: all primary
\* and no time known, or R2 secondary and some times known
GaSettings ==
    { [resources |-> <<PlainResource("R1"), PlainResource("R2"), PlainResource("R3")>>,
       process_times |-> <<>>],
      [resources |-> <<PlainResource("R1"), MkResource("R2", "Secondary", 1, None)>>,
       process_times |->
          (<<"A1", "R2">> :> MaxDur) @@ (<<"A1", "R1">> :> MaxDur + 1)
            @@ (<<"A2", "R3">> :> 1) @@ (<<"A3", "R1">> :> 1) @@ (<<"A3", "R3">> :> 1)] }

CrossoverTypes == {"POX", "JOX"}
MutationTypes == {"Swap"}

GaIdle ==
    /\ activities = <<>>
    /\ ga_resources = <<>>
    /\ process_times = <<>>
    /\ operators = [crossover_type |-> "POX", mutation_type |-> "Swap"]
    /\ ga_pc = "build"
    /\ built = <<>>
    /\ children = <<>>

\* no mutation made, no Population created, no seeded run made
OpsIdle == mutated = None

PopIdle ==
    /\ individuals = <<>>
    /\ params = [population_size |-> 0, elite_ratio |-> <<0, 1>>,
                 tournament_size |-> 0, convergence_generations |-> 0,
                 convergence_threshold |-> <<0, 1>>]
    /\ generation = 0
    /\ pop_best = None
    /\ fitness_history = <<>>
    /\ pop_pc = "none"
    /\ crossover_calls = 0
    /\ converged = None

\* no Calendar call made, no validation made, no RuleEngine used
CalIdle ==
    /\ calendar_built = NewCalendar
    /\ asked_from_ms = None
    /\ next_time = None

ValIdle == validation = None

EngIdle ==
    /\ engine = NewRuleEngine
    /\ context = [resource_utilization |-> <<>>, next_queue_length |-> <<>>]
    /\ sort_result = None
    /\ best_result = None

RunsIdle ==
    /\ rng_seed = None
    /\ run_a = None
    /\ run_b = None

SelIdle ==
    /\ sampled = <<>>
    /\ selected_idx = None
    /\ decoded = None

LoopIdle == evolve_new_population = <<>>

SchedUnused ==
    /\ tasks = <<>>
    /\ resources = <<>>
    /\ start_time_ms = 0
    /\ transition_matrices = NoMatrices
    /\ SchedIdle

Init ==
    /\ InitCore \/ InitAux
    /\ SchedIdle
    /\ GaIdle
    /\ OpsIdle
    /\ PopIdle
    /\ RunsIdle
    /\ CalIdle
    /\ ValIdle
    /\ EngIdle
    /\ SelIdle
    /\ LoopIdle

Next ==
    \/ ScheduleBegin
    \/ NextTask
    \/ SkipActivity
    \/ PlaceActivity
    \/ Return

Spec == Init /\ [][Next]_vars

InitGa ==
    /\ activities \in ActivityInfoLists
    /\ \E g \in GaSettings :
          /\ ga_resources = g.resources
          /\ process_times = g.process_times
    /\ operators \in [crossover_type : CrossoverTypes, mutation_type : MutationTypes]
    /\ ga_pc = "build"
    /\ built = <<>>
    /\ children = <<>>
    /\ SchedUnused
    /\ OpsIdle
    /\ PopIdle
    /\ RunsIdle
    /\ CalIdle
    /\ ValIdle
    /\ EngIdle
    /\ SelIdle
    /\ LoopIdle

NextGa ==
    \/ BuildRandom
    \/ BuildLoadBalanced
    \/ BuildShortestTime
    \/ Crossover

SpecGa == InitGa /\ [][NextGa]_vars

\* the inputs of the genetic operators: every crossover type and every
\* mutation type; no activity, one activity, or four activities of three
\* tasks; two parents valid for the activity list, the first with any
\* OSV and MAV and with or without a fitness, the second with any OSV, the
\* first candidates as MAV and a fitness
OperatorSettings ==
    { [crossover_type |-> "POX", mutation_type |-> "Swap"],
      [crossover_type |-> "LOX", mutation_type |-> "Insert"],
      [crossover_type |-> "JOX", mutation_type |-> "Invert"] }

OperatorActivityLists == { acts \in ActivityInfoLists : Len(acts) # 3 }

InitOps ==
    /\ activities \in OperatorActivityLists
    /\ ga_resources = <<>>
    /\ process_times = <<>>
    /\ operators \in OperatorSettings
    /\ ga_pc = "cross"
    /\ \E p1 \in RandomChromosomes(activities),
          p2 \in ShortestTimeChromosomes(activities, process_times),
          f \in {INFINITY, Finite(1)} :
          built = <<WithFitness(p1, f), WithFitness(p2, Finite(2))>>
    /\ children = <<>>
    /\ SchedUnused
    /\ OpsIdle
    /\ PopIdle
    /\ RunsIdle
    /\ CalIdle
    /\ ValIdle
    /\ EngIdle
    /\ SelIdle
    /\ LoopIdle

NextOps ==
    \/ Crossover
    \/ CrossoverLox
    \/ Mutate

SpecOps == InitOps /\ [][NextOps]_vars

\* the inputs of Population::new: two tasks of one activity each, or no
\* activity; one primary resource
TwoTasks ==
    << ActivityInfo("T1", "A1", 1, <<"R1">>, 1),
       ActivityInfo("T2", "A2", 1, <<"R1">>, 1) >>

GaParams(population_size, elite_ratio, tournament_size, convergence_generations) ==
    [population_size |-> population_size, elite_ratio |-> elite_ratio,
     tournament_size |-> tournament_size,
     convergence_generations |-> convergence_generations,
     convergence_threshold |-> <<3, 4>>]

\* no elite, half of the population, all of it; with the window at its
\* largest, or smaller for a population of one
PopulationSettings(sizes) ==
    { [params |-> GaParams(n, e[1], e[2], MaxWindow), operators |-> e[3]] :
        n \in sizes,
        e \in { <<<<0, 1>>, 2, [crossover_type |-> "POX", mutation_type |-> "Swap"]>>,
                <<<<1, 2>>, 1, [crossover_type |-> "LOX", mutation_type |-> "Insert"]>>,
                <<<<1, 1>>, 1, [crossover_type |-> "JOX", mutation_type |-> "Invert"]>> } }
    \cup
    { [params |-> GaParams(1, <<0, 1>>, 1, w),
       operators |-> [crossover_type |-> "POX", mutation_type |-> "Swap"]] :
        w \in 0..MaxWindow }

\* the values of population_size: none, one, and sizes whose half and
\* quarter round down; with no activity also the first size that has a load
\* balanced individual
PopulationSizes == {0, 1, 2, 3}

InitPop ==
    /\ \E input \in
            { <<TwoTasks, g>> : g \in PopulationSettings(PopulationSizes) }
            \cup { <<<<>>, g>> : g \in PopulationSettings(PopulationSizes \cup {4}) } :
          /\ activities = input[1]
          /\ params = input[2].params
          /\ operators = input[2].operators
    /\ ga_resources = <<PlainResource("R1")>>
    /\ process_times = <<>>
    /\ ga_pc = "build"
    /\ built = <<>>
    /\ children = <<>>
    /\ individuals = <<>>
    /\ generation = 0
    /\ pop_best = None
    /\ fitness_history = <<>>
    /\ pop_pc = "none"
    /\ crossover_calls = 0
    /\ converged = None
    /\ SchedUnused
    /\ OpsIdle
    /\ RunsIdle
    /\ CalIdle
    /\ ValIdle
    /\ EngIdle
    /\ SelIdle
    /\ LoopIdle

NextPop ==
    \/ PopulationNew
    \/ AssignFitness
    \/ Evolve
    \/ SetHistory
    \/ IsConverged

SpecPop == InitPop /\ [][NextPop]_vars

\* the tournament sizes range over 0..MaxTournament
MaxTournament == 3

\* the populations of single calls: one chromosome of any OSV and MAV for
\* each activity list, or up to three individuals of any fitness over one
\* activity, with any tournament size
SelectionSizes == 1..3

InitSel ==
    /\ \/ /\ activities \in ActivityInfoLists
          /\ \E c \in RandomChromosomes(activities), f \in FitnessValues :
                individuals = <<WithFitness(c, f)>>
          /\ params = GaParams(1, <<0, 1>>, 1, 0)
       \/ /\ activities \in { acts \in ActivityInfoLists : Len(acts) = 1 }
          /\ \E c \in ShortestTimeChromosomes(activities, <<>>),
                n \in SelectionSizes :
                \E f \in [1..n -> FitnessValues] :
                    individuals = [i \in 1..n |-> WithFitness(c, f[i])]
          /\ \E k \in 0..MaxTournament :
                params = GaParams(Len(individuals), <<0, 1>>, k, 0)
    /\ ga_resources = <<>>
    /\ process_times = <<>>
    /\ operators = [crossover_type |-> "POX", mutation_type |-> "Swap"]
    /\ ga_pc = "done"
    /\ built = <<>>
    /\ children = <<>>
    /\ generation = 0
    /\ pop_best = None
    /\ fitness_history = <<>>
    /\ pop_pc = "fitness"
    /\ crossover_calls = 0
    /\ converged = None
    /\ SchedUnused
    /\ OpsIdle
    /\ RunsIdle
    /\ CalIdle
    /\ ValIdle
    /\ EngIdle
    /\ SelIdle
    /\ LoopIdle

NextSel ==
    \/ TournamentSelection
    \/ DecodeOsv

SpecSel == InitSel /\ [][NextSel]_vars

\* the populations evolve is called on step by step: none, one or two
\* individuals over two tasks, of any fitness, whatever population_size
\* says; no elite, half, all, or twice the population; any tournament size
\* up to 2
RefillSizes == 0..3
RefillEliteRatios == {<<0, 1>>, <<1, 2>>, <<2, 1>>}
RefillTournamentSizes == 0..2

InitEvolve ==
    /\ activities = TwoTasks
    /\ operators \in OperatorSettings
    /\ \E n \in RefillSizes, e \in RefillEliteRatios, k \in RefillTournamentSizes :
          params = GaParams(n, e, k, 0)
    /\ \E m \in 0..2 :
          \E c \in [1..m -> ShortestTimeChromosomes(activities, <<>>)],
             f \in [1..m -> FitnessValues] :
             individuals = [i \in 1..m |-> WithFitness(c[i], f[i])]
    /\ ga_resources = <<PlainResource("R1")>>
    /\ process_times = <<>>
    /\ ga_pc = "build"
    /\ built = <<>>
    /\ children = <<>>
    /\ generation = 0
    /\ pop_best = None
    /\ fitness_history = <<>>
    /\ pop_pc = "fitness"
    /\ crossover_calls = 0
    /\ converged = None
    /\ SchedUnused
    /\ OpsIdle
    /\ RunsIdle
    /\ CalIdle
    /\ ValIdle
    /\ EngIdle
    /\ SelIdle
    /\ LoopIdle

NextEvolve ==
    \/ EvolveBegin
    \/ RefillPass
    \/ RefillPanics
    \/ EvolveFinish

\* a call of evolve that has begun keeps running: its next pass of the
\* loop, or its return, is taken
SpecEvolve ==
    /\ InitEvolve
    /\ [][NextEvolve]_vars
    /\ WF_vars(RefillPass)
    /\ WF_vars(EvolveFinish)

\* the inputs of two seeded runs: one activity, or three activities of two
\* tasks; a population of one or of two
InitRuns ==
    /\ activities \in { acts \in ActivityInfoLists : Len(acts) \in {1, 3} }
    /\ ga_resources = <<PlainResource("R1"), PlainResource("R2"), PlainResource("R3")>>
    /\ process_times = <<>>
    /\ operators = [crossover_type |-> "POX", mutation_type |-> "Swap"]
    /\ ga_pc = "build"
    /\ built = <<>>
    /\ children = <<>>
    /\ \E n \in {1, 2} : params = GaParams(n, <<0, 1>>, 1, 0)
    /\ individuals = <<>>
    /\ generation = 0
    /\ pop_best = None
    /\ fitness_history = <<>>
    /\ pop_pc = "none"
    /\ crossover_calls = 0
    /\ converged = None
    /\ SchedUnused
    /\ OpsIdle
    /\ RunsIdle
    /\ CalIdle
    /\ ValIdle
    /\ EngIdle
    /\ SelIdle
    /\ LoopIdle

NextRuns ==
    \/ SeedRng
    \/ RunA
    \/ RunB

SpecRuns == InitRuns /\ [][NextRuns]_vars

\* the inputs of validate_input: up to MaxValidated tasks named T1 or T2,
\* each with no activity or one whose candidates are known, unknown or
\* both; up to MaxValidated resources named M1 or M2
ValidatedActivityLists(task_id) ==
    {<<>>} \cup
    { <<MkActivity(task_id, 1, 1, FixedDuration(1), reqs)>> :
        reqs \in { <<Requirement(<<"M1">>)>>,
                   <<Requirement(<<"UNKNOWN">>)>>,
                   <<Requirement(<<"M2">>), Requirement(<<"M1", "UNKNOWN">>)>> } }

ValidatedTasks ==
    UNION { { MkTask(id, 1, "a", None, acts) : acts \in ValidatedActivityLists(id) } :
            id \in Range(TaskIds) }

SeqsUpTo(S, n) == UNION { [1..k -> S] : k \in 0..n }

InitVal ==
    /\ tasks \in SeqsUpTo(ValidatedTasks, MaxValidated)
    /\ resources \in SeqsUpTo({PlainResource(id) : id \in Range(ResourceIds)}, MaxValidated)
    /\ start_time_ms = 0
    /\ transition_matrices = NoMatrices
    /\ SchedIdle
    /\ GaIdle
    /\ OpsIdle
    /\ PopIdle
    /\ RunsIdle
    /\ CalIdle
    /\ ValIdle
    /\ EngIdle
    /\ SelIdle
    /\ LoopIdle

NextVal == ValidateInput

SpecVal == InitVal /\ [][NextVal]_vars

\* a Calendar::new, then windows and blocked periods added, then one call
\* of next_available_time
InitCal ==
    /\ SchedUnused
    /\ GaIdle
    /\ OpsIdle
    /\ PopIdle
    /\ RunsIdle
    /\ CalIdle
    /\ ValIdle
    /\ EngIdle
    /\ SelIdle
    /\ LoopIdle

NextCal ==
    \/ WithWindow
    \/ WithBlocked
    \/ NextAvailableTime

SpecCal == InitCal /\ [][NextCal]_vars

\* The inputs of RuleEngine::sort.  Task ids are "A", "B" and "AB" as bytes.
EngineIds == {<<65>>, <<66>>, <<65, 66>>}
EngineCounts == 0..3
EngineResources == <<"R1", "R2", "R3">>

\* make_task of dispatching/tests.rs, with a deadline in epoch milliseconds
DispatchTask(id, deadline, acts) ==
    [id |-> id, priority |-> 0, category |-> "", release_time |-> None,
     deadline |-> deadline, activities |-> acts]

\* the n ids of n tasks, no two alike
IdLists(n) == { ids \in [1..n -> EngineIds] :
                  \A i, j \in 1..n : ids[i] = ids[j] => i = j }

\* n tasks, task i with one activity whose one candidate is resource Ri,
\* and deadlines dl
TasksOfOwnResource(ids, dl) ==
    [i \in DOMAIN ids |->
        DispatchTask(ids[i], dl[i],
            <<MkActivity(ids[i], 1, 1, FixedDuration(1),
                         <<Requirement(<<EngineResources[i]>>)>>)>>)]

\* the f64 utilizations of a context: a number of steps or NaN
Utilizations == {Num(u) : u \in 1..MaxUtilSteps} \cup {NaN}

\* SchedulingContext::at_epoch().with_utilization(..).with_next_queue(..):
\* util[i] is the utilization of resource Ri, none when the builder was not
\* called for it; queue[i] the queue length of task i, 0 when the builder
\* was not called for it
ContextOf(ids, util, queue) ==
    [resource_utilization |->
        [r \in {EngineResources[i] : i \in {j \in DOMAIN util : IsSome(util[j])}} |->
            Unwrap(util[CHOOSE i \in DOMAIN util : EngineResources[i] = r])],
     next_queue_length |->
        [id \in {ids[i] : i \in {j \in DOMAIN queue : queue[j] > 0}} |->
            queue[CHOOSE i \in DOMAIN queue : ids[i] = id]]]

\* the Option<f64> a resource's utilization is drawn from
UtilizationChoices(withNaN) ==
    {None} \cup {Some(u) : u \in IF withNaN THEN Utilizations ELSE Utilizations \ {NaN}}

DeadlineChoices == {None} \cup {Some(d) : d \in 0..MaxDeadline}

\* the engine, the tasks and the context a call is made with
EngineInput(e, ts, ctx) ==
    /\ engine = e
    /\ tasks = ts
    /\ context = ctx

\* Sequential mode by LPUL, or no rule at all, under each final tie-breaker
LpulInputs ==
    \E n \in EngineCounts :
      \E e \in {NewRuleEngine, with_rule(NewRuleEngine, "LPUL")},
         tb \in {"NextRule", "ById", "Random"},
         ids \in IdLists(n),
         util \in [1..n -> UtilizationChoices(TRUE)] :
        EngineInput(with_final_tie_breaker(e, tb),
                    TasksOfOwnResource(ids, [i \in 1..n |-> None]),
                    ContextOf(ids, util, [i \in 1..n |-> 0]))

\* the ids of the tasks of the inputs that do not permute them: neither in
\* ascending nor in descending order of id
FixedIds(n) == SubSeq(<<<<66>>, <<65, 66>>, <<65>>>>, 1, n)

\* Sequential mode by LPUL with WINQ as the tie-breaker rule
LpulWinqInputs ==
    \E n \in EngineCounts :
      \E tb \in {"NextRule", "ById"},
         util \in [1..n -> UtilizationChoices(FALSE)],
         queue \in [1..n -> 0..MaxQueue] :
        EngineInput(with_final_tie_breaker(
                        with_tie_breaker(with_rule(NewRuleEngine, "LPUL"), "WINQ"), tb),
                    TasksOfOwnResource(FixedIds(n), [i \in 1..n |-> None]),
                    ContextOf(FixedIds(n), util, queue))

\* Weighted mode by LPUL and WINQ
WeightedInputs ==
    \E n \in EngineCounts :
      \E w1 \in 0..MaxWeight, w2 \in 0..MaxWeight,
         util \in [1..n -> UtilizationChoices(FALSE)],
         queue \in [1..n -> 0..MaxQueue] :
        EngineInput(with_final_tie_breaker(
                        with_mode(
                            with_weighted_rule(
                                with_weighted_rule(NewRuleEngine, "LPUL", w1),
                                "WINQ", w2),
                            "Weighted"),
                        "ById"),
                    TasksOfOwnResource(FixedIds(n), [i \in 1..n |-> None]),
                    ContextOf(FixedIds(n), util, queue))

\* Weighted mode by LPUL alone, NaN among the utilizations
WeightedLpulInputs ==
    \E n \in EngineCounts :
      \E w \in 0..MaxWeight,
         util \in [1..n -> UtilizationChoices(TRUE)] :
        EngineInput(with_mode(with_weighted_rule(NewRuleEngine, "LPUL", w), "Weighted"),
                    TasksOfOwnResource(FixedIds(n), [i \in 1..n |-> None]),
                    ContextOf(FixedIds(n), util, [i \in 1..n |-> 0]))

\* EDD as the only rule, in either mode, with any weight
EddInputs ==
    \E n \in EngineCounts :
      \E w \in 0..MaxWeight,
         mode \in {"Sequential", "Weighted"},
         tb \in {"NextRule", "ById"},
         ids \in IdLists(n),
         dl \in [1..n -> DeadlineChoices] :
        EngineInput(with_final_tie_breaker(
                        with_mode(with_weighted_rule(NewRuleEngine, "EDD", w), mode), tb),
                    TasksOfOwnResource(ids, dl),
                    ContextOf(ids, [i \in 1..n |-> None], [i \in 1..n |-> 0]))

\* LPUL of one task whose first activity has no, one or two requirements,
\* or that has no activity
SharedInputs ==
    \E mode \in {"Sequential", "Weighted"},
       acts \in {<<>>} \cup
                { <<MkActivity(<<65>>, 1, 1, FixedDuration(1), reqs)>> :
                    reqs \in { <<>>,
                               <<Requirement(<<"R1", "R2">>)>>,
                               <<Requirement(<<"R2">>), Requirement(<<"R1">>)>> } },
       util \in [1..2 -> UtilizationChoices(TRUE)] :
      EngineInput(with_mode(with_rule(NewRuleEngine, "LPUL"), mode),
                  <<DispatchTask(<<65>>, None, acts)>>,
                  ContextOf(<<<<65>>>>, util, <<0>>))

InitEng ==
    /\ \/ LpulInputs
       \/ LpulWinqInputs
       \/ WeightedInputs
       \/ WeightedLpulInputs
       \/ EddInputs
       \/ SharedInputs
    /\ resources = <<>>
    /\ start_time_ms = 0
    /\ transition_matrices = NoMatrices
    /\ sort_result = None
    /\ best_result = None
    /\ SchedIdle
    /\ GaIdle
    /\ OpsIdle
    /\ PopIdle
    /\ RunsIdle
    /\ CalIdle
    /\ ValIdle
    /\ SelIdle
    /\ LoopIdle

NextEng ==
    \/ Sort
    \/ SelectBestTask

SpecEng == InitEng /\ [][NextEng]_vars

----------------------------------------------------------------------------
(* The Schedule returned by SimpleScheduler::schedule *)

Returned == pc = "done"

Assignments == Range(schedule.assignments)

AllTasks == Range(tasks)

AllActivities == UNION { Range(t.activities) : t \in AllTasks }

\* the activity and the task an assignment was made for
ActivityOf(a) == CHOOSE act \in AllActivities : act.id = a.activity_id
TaskOf(a) == CHOOSE t \in AllTasks : t.id = a.task_id

\* the provided resources an assignment is on
ResourcesOf(a) == { r \in Range(resources) : r.id = a.resource_id }

\* half-open intervals [start_ms, end_ms) that share an instant
Overlap(a, b) == a.start_ms < b.end_ms /\ b.start_ms < a.end_ms

\* C1: in the returned schedule, for every task, each assigned activity ends
\* no later than the assigned activity of the task that follows it in
\* sequence-number order starts.
C1_IntraTaskOrder ==
    Returned =>
        \A a, b \in Assignments :
            ( /\ a.task_id = b.task_id
              /\ ActivityOf(a).sequence < ActivityOf(b).sequence
              /\ ~ \E c \in Assignments :
                     /\ c.task_id = a.task_id
                     /\ ActivityOf(a).sequence < ActivityOf(c).sequence
                     /\ ActivityOf(c).sequence < ActivityOf(b).sequence )
            => a.end_ms <= b.start_ms

\* C2: in the returned schedule no two assignments on the same resource of
\* capacity 1 have overlapping intervals [start_ms, end_ms).
C2_NoOverlapOnUnitResource ==
    Returned =>
        \A i, j \in DOMAIN schedule.assignments :
            LET a == schedule.assignments[i]
                b == schedule.assignments[j]
            IN  ( /\ i # j
                  /\ a.resource_id = b.resource_id
                  /\ \E r \in ResourcesOf(a) : r.capacity = 1 )
                => ~ Overlap(a, b)

\* C2 witness: a returned schedule with two assignments of positive length
\* on one capacity-1 resource, the later one with a transition setup.
C2_Witness ==
    /\ Returned
    /\ \E i, j \in DOMAIN schedule.assignments :
          LET a == schedule.assignments[i]
              b == schedule.assignments[j]
          IN  /\ i < j
              /\ a.resource_id = b.resource_id
              /\ \E r \in ResourcesOf(a) : r.capacity = 1
              /\ a.end_ms > a.start_ms
              /\ b.end_ms > b.start_ms
              /\ b.setup_ms > 0

\* C3: in the returned schedule every assignment of a task that has a
\* release time starts at or after that release time.
C3_ReleaseRespected ==
    Returned =>
        \A a \in Assignments :
            IsSome(TaskOf(a).release_time)
                => a.start_ms >= Unwrap(TaskOf(a).release_time)

\* C4: makespan_ms is the maximum end_ms over the assignments added so far,
\* and 0 when there is none.
C4_MakespanIsMaxEnd ==
    schedule.makespan_ms =
        IF Assignments = {} THEN 0
        ELSE SetMax({a.end_ms : a \in Assignments})

\* C5: in the returned schedule the resource of every assignment is one of
\* the flattened candidates of the assigned activity.
C5_ResourceIsCandidate ==
    Returned =>
        \A a \in Assignments :
            a.resource_id \in Range(candidate_resources(ActivityOf(a)))

\* C5 witness: a returned schedule in which an activity with two different
\* candidates is assigned to the one listed second.
C5_Witness ==
    /\ Returned
    /\ \E a \in Assignments :
          LET c == candidate_resources(ActivityOf(a))
          IN  Len(c) = 2 /\ c[1] # c[2] /\ a.resource_id = c[2]

\* C6: every assignment lasts setup_ms + process_ms + teardown_ms, with
\* setup_ms the setup recorded in it and process_ms and teardown_ms the
\* duration parts of the assigned activity.
C6_DurationIdentity ==
    \A a \in Assignments :
        a.end_ms - a.start_ms =
            a.setup_ms + ActivityOf(a).duration.process_ms
                       + ActivityOf(a).duration.teardown_ms

\* C8: in the returned schedule, for every assignment that starts outside
\* the working time of its resource's calendar (start_ms differs from
\* next_available_time(start_ms)) a Violation is recorded.
C8_CalendarViolationRecorded ==
    Returned =>
        \A a \in Assignments :
            ( \E r \in ResourcesOf(a) :
                /\ IsSome(r.calendar)
                /\ next_available_time(Unwrap(r.calendar), a.start_ms) # a.start_ms )
            => \E i \in DOMAIN schedule.violations :
                 schedule.violations[i].entity_id
                    \in {a.activity_id, a.task_id, a.resource_id}

\* the task at input position p is placed before the one at position q:
\* its priority is higher, or equal with p the earlier position
PlacedBefore(p, q) ==
    \/ tasks[p].priority > tasks[q].priority
    \/ tasks[p].priority = tasks[q].priority /\ p < q

\* C29: in the returned assignment list every assignment of a task precedes
\* every assignment of any task that has lower priority, or equal priority
\* and a later input position.
C29_PriorityOrder ==
    Returned =>
        \A i, j \in DOMAIN schedule.assignments :
            \A p, q \in DOMAIN tasks :
                ( /\ tasks[p].id = schedule.assignments[i].task_id
                  /\ tasks[q].id = schedule.assignments[j].task_id
                  /\ PlacedBefore(p, q) )
                => i < j

\* C29 witness: a returned schedule whose first assignment is of the second
\* task, of higher priority than the first task, which is assigned after it.
C29_Witness ==
    /\ Returned
    /\ Len(tasks) = 2
    /\ tasks[2].priority > tasks[1].priority
    /\ Len(schedule.assignments) >= 2
    /\ schedule.assignments[1].task_id = tasks[2].id
    /\ schedule.assignments[Len(schedule.assignments)].task_id = tasks[1].id

\* C30: for every activity placed, the resource chosen has the least
\* effective start max(available_at[candidate], task cursor) of the
\* activity's candidates that are provided resources, it is the first listed
\* of those with the least, and start_ms is that least effective start.
C30_EarliestCandidateFirstListed ==
    [][ Len(schedule'.assignments) > Len(schedule.assignments) =>
          LET a == schedule'.assignments[Len(schedule'.assignments)]
              c == candidate_resources(CurActivity)
              known == { k \in DOMAIN c : c[k] \in DOMAIN resource_available }
              effective_start(k) ==
                  IF resource_available[c[k]] >= task_start
                  THEN resource_available[c[k]] ELSE task_start
          IN  /\ a.activity_id = CurActivity.id
              /\ \E k \in known :
                    /\ a.resource_id = c[k]
                    /\ a.start_ms = effective_start(k)
                    /\ \A m \in known : effective_start(k) <= effective_start(m)
                    /\ \A m \in known : m < k => effective_start(k) < effective_start(m)
      ]_vars

\* the positions in the assignment list of the assignments made before the
\* one at position i on the same resource
EarlierOnResource(i) ==
    { j \in 1..(i - 1) :
        schedule.assignments[j].resource_id = schedule.assignments[i].resource_id }

\* C31: at every moment of a run, the setup_ms of an assignment is 0 when no
\* assignment was placed on its resource before it, and otherwise the time
\* the transition matrices give for that resource from the category of the
\* task placed on it immediately before to the category of its own task.
C31_SetupFromPreviousCategory ==
    \A i \in DOMAIN schedule.assignments :
        LET a == schedule.assignments[i]
            earlier == EarlierOnResource(i)
        IN  a.setup_ms =
               IF earlier = {} THEN 0
               ELSE get_transition_time(
                        transition_matrices, a.resource_id,
                        TaskOf(schedule.assignments[SetMax(earlier)]).category,
                        TaskOf(a).category)

\* C31 witness: a returned schedule with three assignments on M1, the first
\* without setup, the second after a task of its own category with the
\* matrix default, the third after a change from category a to b with the
\* time listed for that pair.
C31_Witness ==
    /\ Returned
    /\ transition_matrices = OneMatrix
    /\ Len(schedule.assignments) = 3
    /\ \A i \in 1..3 : schedule.assignments[i].resource_id = "M1"
    /\ schedule.assignments[1].setup_ms = 0
    /\ schedule.assignments[2].setup_ms = DefaultSetup
    /\ schedule.assignments[3].setup_ms = SetupAB
    /\ TaskOf(schedule.assignments[2]).category = "a"
    /\ TaskOf(schedule.assignments[3]).category = "b"

\* C32: every assignment ends at start_ms + setup_ms + the process_ms of its
\* activity, setup_ms being the setup recorded in it.
C32_EndIsStartSetupProcess ==
    \A a \in Assignments :
        a.end_ms = a.start_ms + a.setup_ms + ActivityOf(a).duration.process_ms

\* C32 witness: a returned schedule with an assignment of positive setup and
\* positive process time.
C32_Witness ==
    /\ Returned
    /\ \E a \in Assignments :
          /\ a.setup_ms > 0
          /\ ActivityOf(a).duration.process_ms > 0
          /\ a.end_ms > a.start_ms + a.setup_ms

\* the ids of the provided resources
ProvidedIds == { resources[i].id : i \in DOMAIN resources }

\* the activity has a candidate that is a provided resource
HasProvidedCandidate(activity) ==
    Range(candidate_resources(activity)) \cap ProvidedIds # {}

\* the assignments made for an activity
AssignmentsOf(activity) ==
    { i \in DOMAIN schedule.assignments :
        schedule.assignments[i].activity_id = activity.id }

\* C33: the step that meets an activity without candidates leaves the
\* resource availabilities, the last categories, the task cursor and the
\* schedule as they are; in the returned schedule the activities that come
\* after such an activity in their task and have a provided candidate are
\* assigned; and when no activity has a candidate the returned schedule has
\* no assignment and makespan 0.
C33_EmptyCandidatesSkipped ==
    /\ [][ ( /\ pc = "activity"
             /\ act_pos <= Len(CurTask.activities)
             /\ candidate_resources(CurActivity) = <<>> )
           => ( /\ UNCHANGED <<resource_available, last_category, task_start, schedule>>
                /\ AssignmentsOf(CurActivity) = {} )
       ]_vars
    /\ [](Returned =>
            \A t \in DOMAIN tasks : \A j, k \in DOMAIN tasks[t].activities :
                ( /\ j < k
                  /\ candidate_resources(tasks[t].activities[j]) = <<>>
                  /\ HasProvidedCandidate(tasks[t].activities[k]) )
                => AssignmentsOf(tasks[t].activities[k]) # {})
    /\ [](( /\ Returned
            /\ \A act \in AllActivities : candidate_resources(act) = <<>> )
          => schedule.assignments = <<>> /\ schedule.makespan_ms = 0)

\* C33 witness: a returned schedule for a task whose first activity has no
\* candidate and whose second activity is assigned, from the start time on.
C33_Witness ==
    /\ Returned
    /\ \E t \in DOMAIN tasks :
          /\ Len(tasks[t].activities) = 2
          /\ candidate_resources(tasks[t].activities[1]) = <<>>
          /\ AssignmentsOf(tasks[t].activities[1]) = {}
          /\ \E i \in AssignmentsOf(tasks[t].activities[2]) :
                schedule.assignments[i].start_ms = start_time_ms

\* C37: the returned schedule has exactly one assignment for every activity
\* that has a candidate among the provided resources and none for any other
\* activity, and the resource of every assignment is a provided resource.
C37_OneAssignmentPerPlaceableActivity ==
    Returned =>
        /\ \A act \in AllActivities :
              Cardinality(AssignmentsOf(act)) =
                 IF HasProvidedCandidate(act) THEN 1 ELSE 0
        /\ \A a \in Assignments : a.resource_id \in ProvidedIds

\* C37 witness: a returned schedule with an assignment for an activity whose
\* first candidate is not provided and whose second is, and none for an
\* activity whose only candidate is not provided.
C37_Witness ==
    /\ Returned
    /\ \E act \in AllActivities :
          /\ Len(candidate_resources(act)) = 2
          /\ candidate_resources(act)[1] \notin ProvidedIds
          /\ \E i \in AssignmentsOf(act) :
                schedule.assignments[i].resource_id = candidate_resources(act)[2]
    /\ \E act \in AllActivities :
          /\ candidate_resources(act) # <<>>
          /\ ~ HasProvidedCandidate(act)
          /\ AssignmentsOf(act) = {}

\* C30 witness: a returned schedule in which an activity with two different
\* candidates was placed on the first, both being free at the same time.
C30_Witness ==
    /\ Returned
    /\ Len(resources) = 2
    /\ \E a \in Assignments :
          LET c == candidate_resources(ActivityOf(a))
          IN  /\ Len(c) = 2
              /\ c[1] # c[2]
              /\ a.resource_id = c[1]
              /\ a.start_ms = start_time_ms
              /\ \A b \in Assignments : b.start_ms >= a.start_ms

----------------------------------------------------------------------------
(* The chromosomes built and the children of a crossover *)

\* the number of activities of task t in acts
ActivitiesOfTask(acts, t) == Cardinality({i \in DOMAIN acts : acts[i].task_id = t})

\* the validity the chromosome encoding asks for, spelled out: both vectors
\* as long as the activity list, each task id as often in the OSV as the
\* task has activities and no other entry in it, every MAV entry of an
\* activity with candidates one of them
WellFormed(c, acts) ==
    /\ Len(c.osv) = Len(acts)
    /\ Len(c.mav) = Len(acts)
    /\ \A t \in {acts[i].task_id : i \in DOMAIN acts} :
          Count(c.osv, t) = ActivitiesOfTask(acts, t)
    /\ \A k \in DOMAIN c.osv : c.osv[k] \in {acts[i].task_id : i \in DOMAIN acts}
    /\ \A i \in DOMAIN acts :
          acts[i].candidates # <<>> => c.mav[i] \in Range(acts[i].candidates)

\* C9: every chromosome built by Chromosome::random, with_load_balancing or
\* with_shortest_time satisfies is_valid for the activity list it was built
\* from: OSV and MAV have length |activities|, each task id occurs in the OSV
\* as often as the task has activities, and every MAV entry of an activity
\* with candidates is one of its candidates.
C9_BuiltChromosomesValid ==
    \A n \in DOMAIN built :
        /\ is_valid(built[n], activities)
        /\ WellFormed(built[n], activities)

\* C9 witness: two chromosomes built for a list of several activities, one
\* with the load-balanced MAV and one with the shortest-time MAV, the two
\* MAVs different and one of them taking a candidate that is not listed
\* first.
C9_Witness ==
    /\ Len(built) = 2
    /\ Len(activities) >= 3
    /\ built[1].mav = create_load_balanced_mav(activities, ga_resources)
    /\ built[2].mav = create_shortest_time_mav(activities, process_times)
    /\ built[1].mav # built[2].mav
    /\ \E i \in DOMAIN activities :
          /\ Len(activities[i].candidates) = 2
          /\ built[1].mav[i] = activities[i].candidates[2]

\* C10: for two parents valid for the same activity list, both children of
\* a POX or JOX crossover are valid for that list: each child's OSV has
\* every task id as often as the parents have it, and no position of it is
\* left empty.
C10_CrossoverChildrenValid ==
    ( /\ ga_pc = "done"
      /\ operators.crossover_type \in {"POX", "JOX"}
      /\ is_valid(built[1], activities)
      /\ is_valid(built[2], activities) )
    => \A k \in DOMAIN children :
          /\ is_valid(children[k], activities)
          /\ WellFormed(children[k], activities)
          /\ \A t \in Range(built[1].osv) \cup Range(children[k].osv) :
                Count(children[k].osv, t) = Count(built[1].osv, t)
          /\ \A i \in DOMAIN children[k].osv : children[k].osv[i] # EmptyString

\* C10 witness: a crossover over three tasks done, whose first child has an
\* OSV that is neither parent's and whose parents differ in OSV and MAV.
C10_Witness ==
    /\ ga_pc = "done"
    /\ Len(children) = 2
    /\ Cardinality({activities[i].task_id : i \in DOMAIN activities}) = 3
    /\ built[1].osv # built[2].osv
    /\ built[1].mav # built[2].mav
    /\ children[1].osv \notin {built[1].osv, built[2].osv}
    /\ children[2].osv \notin {built[1].osv, built[2].osv}

----------------------------------------------------------------------------
(* The children of a LOX crossover and the mutated chromosome *)

\* every task id as often in osv as in parent
SameCounts(osv, parent) ==
    \A t \in Range(osv) \cup Range(parent) : Count(osv, t) = Count(parent, t)

\* C11: for two parents valid for the same activity list with an OSV of
\* length at least 2, both children of a LOX crossover keep the segment of
\* their first parent between the cut points at the same positions, hold
\* every task id as often as the parents do, and have no empty position.
C11_LoxChildrenValid ==
    ( /\ ga_pc = "done"
      /\ children # <<>>
      /\ operators.crossover_type = "LOX"
      /\ Len(built[1].osv) >= 2
      /\ is_valid(built[1], activities)
      /\ is_valid(built[2], activities) )
    => /\ \E cut \in CutPoints(Len(built[1].osv)) :
             \A k \in {1, 2} : \A i \in cut[1]..cut[2] :
                children[k].osv[i] = built[k].osv[i]
       /\ \A k \in {1, 2} :
             /\ Len(children[k].osv) = Len(built[k].osv)
             /\ SameCounts(children[k].osv, built[k].osv)
             /\ \A i \in DOMAIN children[k].osv : children[k].osv[i] # EmptyString

\* C12: for every mutation type, mutate leaves a chromosome that was valid
\* for the activity list valid: the OSV holds every task id as often as
\* before, every MAV entry that changed is a candidate of its activity, and
\* the fitness is +infinity.
C12_MutatePreservesValidity ==
    ( IsSome(mutated) /\ is_valid(built[1], activities) )
    => LET m == Unwrap(mutated)
       IN  /\ is_valid(m, activities)
           /\ WellFormed(m, activities)
           /\ SameCounts(m.osv, built[1].osv)
           /\ \A i \in DOMAIN m.mav :
                 m.mav[i] # built[1].mav[i]
                    => m.mav[i] \in Range(activities[i].candidates)
           /\ m.fitness = INFINITY

\* C12 witness: a chromosome of four activities that had a fitness, mutated
\* into one with another OSV and another MAV.
C12_Witness ==
    /\ IsSome(mutated)
    /\ Len(activities) = 4
    /\ built[1].fitness # INFINITY
    /\ Unwrap(mutated).osv # built[1].osv
    /\ Unwrap(mutated).mav # built[1].mav
    /\ Unwrap(mutated).fitness = INFINITY

\* C13: crossover and mutation of genomes of length less than 2 return
\* their inputs unchanged: the children equal the parents, and the mutated
\* chromosome equals the original, in OSV, MAV and fitness.
C13_ShortGenomesUnchanged ==
    Len(built[1].osv) < 2 =>
        /\ children # <<>> =>
              \A k \in {1, 2} :
                 /\ children[k].osv = built[k].osv
                 /\ children[k].mav = built[k].mav
                 /\ children[k].fitness = built[k].fitness
        /\ IsSome(mutated) =>
              /\ Unwrap(mutated).osv = built[1].osv
              /\ Unwrap(mutated).mav = built[1].mav
              /\ Unwrap(mutated).fitness = built[1].fitness

\* a step that is a call of Population::evolve: the only step that ends in
\* an evolved population whose convergence has not been asked
EvolveCalled == pop_pc' = "evolve" /\ converged' = None

C16_SizeAndGeneration ==
    [][ /\ pop_pc' = "new" =>
              /\ Len(individuals') = params'.population_size
              /\ generation' = 0
        /\ EvolveCalled =>
              /\ Len(individuals') = params'.population_size
              /\ generation' = generation + 1 ]_vars

\* C16 witness: a population of three evolved twice, holding a child.
C16_Witness ==
    /\ pop_pc = "evolve"
    /\ generation = 2
    /\ params.population_size = 3
    /\ Len(individuals) = 3
    /\ activities # <<>>
    /\ \E i \in DOMAIN individuals : individuals[i].fitness = INFINITY

\* C17: is_converged answers true exactly when fitness_history has at
\* least W = convergence_generations entries and, for first and last the
\* first and the last of the most recent W entries, first is zero or
\* |first - last| / max(|first|, epsilon) is below the threshold; on
\* histories of finite values, negative ones too.  With whole values and an
\* epsilon below 1, max(|first|, epsilon) is |first| unless first is zero.
C17_ConvergedAsSpecified ==
    ( /\ IsSome(converged)
      /\ params.convergence_generations >= 1
      /\ \A k \in DOMAIN fitness_history : ~ fitness_history[k].inf )
    => Unwrap(converged) =
          ( /\ Len(fitness_history) >= params.convergence_generations
            /\ LET W == params.convergence_generations
                   first == fitness_history[Len(fitness_history) - W + 1].value
                   last == fitness_history[Len(fitness_history)].value
                   abs_first == IF first >= 0 THEN first ELSE 0 - first
                   abs_diff == IF first >= last THEN first - last ELSE last - first
               IN  \/ first = 0
                   \/ abs_diff * params.convergence_threshold[2]
                         < params.convergence_threshold[1] * abs_first )

\* C18: Population::new with an empty activity list leaves no individual,
\* whatever population_size is.
C18_EmptyActivitiesEmptyPopulation ==
    ( pop_pc = "new" /\ activities = <<>> ) => individuals = <<>>

\* C19: evolve on a population of fewer than two individuals completes
\* without a call of crossover.
C19_SmallPopulationSkipsCrossover ==
    [][ ( EvolveCalled /\ Len(individuals) < 2 ) => crossover_calls' = 0 ]_vars

\* C20: two runs of Population::new on the same activities, resources and
\* parameters, with identically seeded random sources, leave the same
\* population: the same OSV and the same MAV at every index.
C20_SeededRunsAgree ==
    ( IsSome(run_a) /\ IsSome(run_b) )
    => \A i \in DOMAIN Unwrap(run_a) :
          /\ Unwrap(run_a)[i].osv = Unwrap(run_b)[i].osv
          /\ Unwrap(run_a)[i].mav = Unwrap(run_b)[i].mav

\* C28: whenever some time at or after t is working (in some time window
\* and in no blocked period), next_available_time(t) is the least such
\* time.
C28_NextAvailableIsEarliestWorking ==
    ( /\ IsSome(next_time)
      /\ \E u \in Unwrap(asked_from_ms)..CalHorizon :
            is_working_time(calendar_built, u) )
    => /\ Unwrap(next_time) >= Unwrap(asked_from_ms)
       /\ is_working_time(calendar_built, Unwrap(next_time))
       /\ \A u \in Unwrap(asked_from_ms)..CalHorizon :
             is_working_time(calendar_built, u) => Unwrap(next_time) <= u

\* the task ids and the resource ids that occur more than once, and the
\* (activity id, candidate) pairs whose candidate is no provided resource
RepeatedTaskIds ==
    { tasks[i].id : i \in { k \in DOMAIN tasks :
                              \E j \in DOMAIN tasks : j # k /\ tasks[j].id = tasks[k].id } }
RepeatedResourceIds ==
    { resources[i].id : i \in { k \in DOMAIN resources :
                                  \E j \in DOMAIN resources :
                                     j # k /\ resources[j].id = resources[k].id } }
UnknownRefs ==
    UNION { { <<act.id, r>> :
                r \in { c \in Range(candidate_resources(act)) :
                          \A i \in DOMAIN resources : resources[i].id # c } } :
            act \in AllActivities }

\* C27: validate_input reports is_valid = true exactly when all task ids are
\* distinct, all resource ids are distinct and every candidate names a
\* provided resource; its errors are a DUPLICATE_TASK for each repeated task
\* id, a DUPLICATE_RESOURCE for each repeated resource id and an
\* INVALID_RESOURCE_REF for each candidate that names no provided resource,
\* and no other.
C27_ValidationReportsExactly ==
    IsSome(validation) =>
        LET v == Unwrap(validation)
            Named(code) == { v.errors[i].message :
                               i \in { k \in DOMAIN v.errors : v.errors[k].code = code } }
        IN  /\ v.is_valid = ( /\ RepeatedTaskIds = {}
                              /\ RepeatedResourceIds = {}
                              /\ UnknownRefs = {} )
            /\ v.is_valid = (v.errors = <<>>)
            /\ { m[2] : m \in Named("DUPLICATE_TASK") } = RepeatedTaskIds
            /\ { m[2] : m \in Named("DUPLICATE_RESOURCE") } = RepeatedResourceIds
            /\ { <<m[2], m[4]>> : m \in Named("INVALID_RESOURCE_REF") } = UnknownRefs
            /\ \A i \in DOMAIN v.errors :
                  v.errors[i].code \in {"DUPLICATE_TASK", "DUPLICATE_RESOURCE",
                                        "INVALID_RESOURCE_REF"}

\* C27 witness: an input with a repeated task id, a repeated resource id and
\* an unknown candidate, reported invalid with an error of each code.
C27_Witness ==
    /\ IsSome(validation)
    /\ ~ Unwrap(validation).is_valid
    /\ RepeatedTaskIds # {}
    /\ RepeatedResourceIds # {}
    /\ UnknownRefs # {}
    /\ { Unwrap(validation).errors[i].code : i \in DOMAIN Unwrap(validation).errors }
          = {"DUPLICATE_TASK", "DUPLICATE_RESOURCE", "INVALID_RESOURCE_REF"}

----------------------------------------------------------------------------
(* The result of RuleEngine::sort *)

Sorted == IsSome(sort_result) /\ ~ Unwrap(sort_result).panicked

\* the input positions in the order returned
SortedOrder == Unwrap(sort_result).order

\* the raw scores of the task at input position i
RawScores(i) == evaluate_raw(engine, tasks[i], context)

\* no rule gives any task a NaN, and no rule panics
NoNaNScore ==
    \A i \in DOMAIN tasks : \A r \in DOMAIN engine.rules :
        RawScores(i)[r].kind \notin {"nan", "panic"}

\* the tasks at input positions a and b tie on every rule
TieOnEveryRule(a, b) ==
    \A r \in DOMAIN engine.rules : ~ DiffersBeyondEpsilon(RawScores(a)[r], RawScores(b)[r])

\* at the first rule where the scores of a and b differ by more than
\* epsilon, the score of a is the lower
LowerAtFirstDifference(a, b) ==
    \E r \in DOMAIN engine.rules :
        /\ DiffersBeyondEpsilon(RawScores(a)[r], RawScores(b)[r])
        /\ partial_cmp(RawScores(a)[r], RawScores(b)[r]) = "Less"
        /\ \A k \in 1..(r - 1) :
              ~ DiffersBeyondEpsilon(RawScores(a)[k], RawScores(b)[k])

\* C21: in Sequential mode, with no NaN among the scores, a task precedes
\* another in the output of sort whenever its raw score is the lower at the
\* first rule where the two differ by more than epsilon; tie-breaker rules
\* count with their raw score.
C21_SequentialLexicographic ==
    (Sorted /\ engine.mode = "Sequential" /\ NoNaNScore) =>
        \A p, q \in DOMAIN SortedOrder :
            p < q => ~ LowerAtFirstDifference(SortedOrder[q], SortedOrder[p])

\* C22: in Sequential mode with at least one rule and no NaN among the
\* scores, two tasks that tie on every rule come out of sort in ascending order of id under ById and in
\* their input order under NextRule.
C22_TiesByIdOrInputOrder ==
    (Sorted /\ engine.mode = "Sequential" /\ engine.rules # <<>> /\ NoNaNScore) =>
        \A p, q \in DOMAIN SortedOrder :
            (p < q /\ TieOnEveryRule(SortedOrder[p], SortedOrder[q])) =>
                /\ engine.tie_breaker = "ById" =>
                      BytesCmp(tasks[SortedOrder[p]].id, tasks[SortedOrder[q]].id) = "Less"
                /\ engine.tie_breaker = "NextRule" => SortedOrder[p] < SortedOrder[q]

\* the sum over the rules of weight times raw score, of the task at input
\* position i
WeightedSum(i) ==
    ScoreSum([r \in DOMAIN engine.rules |->
                 ScoreTimes(RawScores(i)[r], engine.rules[r].weight)])

\* C23: in Weighted mode sort returns the tasks in ascending order of the
\* sum over the rules of weight times raw score, however little two sums
\* differ, and tasks with equal sums in their input order.
C23_WeightedAscendingSums ==
    (Sorted /\ engine.mode = "Weighted") =>
        \A p, q \in DOMAIN SortedOrder :
            p < q =>
                /\ partial_cmp(WeightedSum(SortedOrder[p]), WeightedSum(SortedOrder[q]))
                      \in {"Less", "Equal"}
                /\ partial_cmp(WeightedSum(SortedOrder[p]), WeightedSum(SortedOrder[q]))
                      = "Equal" => SortedOrder[p] < SortedOrder[q]

\* C23 witness: a Weighted sort of three tasks under unequal weights that
\* moved a task in front of one whose sum is greater by no more than epsilon,
\* and left two tasks of equal sums in their input order.
C23_Witness ==
    /\ Sorted
    /\ engine.mode = "Weighted"
    /\ Len(engine.rules) = 2
    /\ engine.rules[1].weight # engine.rules[2].weight
    /\ \E p, q \in DOMAIN SortedOrder :
          /\ p < q
          /\ SortedOrder[p] > SortedOrder[q]
          /\ WeightedSum(SortedOrder[p]).kind = "num"
          /\ WeightedSum(SortedOrder[q]).kind = "num"
          /\ WeightedSum(SortedOrder[q]).value - WeightedSum(SortedOrder[p]).value
                \in 1..epsilon
    /\ \E p, q \in DOMAIN SortedOrder :
          /\ p < q
          /\ WeightedSum(SortedOrder[p]) = WeightedSum(SortedOrder[q])

\* the value a score is to be ordered by when NaN counts as +infinity
NaNAsInfinity(score) == IF score.kind = "nan" THEN PosInf ELSE score

\* C24: sort does not panic, whatever scores are NaN; in Sequential mode no
\* task whose score under the first rule is NaN comes before a task whose
\* score under that rule is a number, and in Weighted mode no task comes
\* before one whose sum is lower, a NaN sum counting as +infinity.
C24_NaNNeverPanics ==
    IsSome(sort_result) =>
        /\ ~ Unwrap(sort_result).panicked
        /\ engine.rules # <<>> =>
              \A p, q \in DOMAIN SortedOrder :
                  p < q =>
                      IF engine.mode = "Sequential"
                      THEN ~ (/\ RawScores(SortedOrder[p])[1].kind = "nan"
                              /\ RawScores(SortedOrder[q])[1].kind # "nan")
                      ELSE partial_cmp(NaNAsInfinity(WeightedSum(SortedOrder[p])),
                                       NaNAsInfinity(WeightedSum(SortedOrder[q])))
                              # "Greater"

\* the positions of the input in their order
InputOrder == [i \in DOMAIN tasks |-> i]

\* C25: a sort that returns gives back the input as it is when the engine
\* has no rule or there is no task, and a permutation of the input in every
\* other case; a select_best that returns gives none exactly when there is
\* no task.
C25_InputUnchangedOrPermuted ==
    /\ Sorted =>
          /\ (engine.rules = <<>> \/ tasks = <<>>) => SortedOrder = InputOrder
          /\ Len(SortedOrder) = Len(tasks)
          /\ Range(SortedOrder) = DOMAIN tasks
    /\ (IsSome(best_result) /\ ~ Unwrap(best_result).panicked) =>
          /\ Unwrap(best_result).best = None <=> tasks = <<>>
          /\ \A b \in Range(Unwrap(best_result).best) : b \in DOMAIN tasks

\* C25 witness: an engine without rules whose final tie-breaker is ById gave
\* back three tasks in their input order, which is not their order of id,
\* and the first of them as the best.
C25_Witness ==
    /\ Sorted
    /\ engine.rules = <<>>
    /\ engine.tie_breaker = "ById"
    /\ Len(tasks) = 3
    /\ BytesCmp(tasks[1].id, tasks[2].id) = "Greater"
    /\ SortedOrder = InputOrder
    /\ best_result = Some([panicked |-> FALSE, best |-> Some(1)])

\* EDD is the engine's only rule
OnlyEdd == Len(engine.rules) = 1 /\ engine.rules[1].rule = "EDD"

\* the task at input position a is due before the one at position b: it has
\* a deadline and b has none or a later one
DueBefore(a, b) ==
    /\ IsSome(tasks[a].deadline)
    /\ \/ tasks[b].deadline = None
       \/ Unwrap(tasks[a].deadline) < Unwrap(tasks[b].deadline)

\* C26 as stated: with EDD as the only rule, in either mode and under any
\* weight, no task comes out of sort after a task it is due before.
C26_EddOnlyAscending ==
    (Sorted /\ OnlyEdd) =>
        \A p, q \in DOMAIN SortedOrder :
            p < q => ~ DueBefore(SortedOrder[q], SortedOrder[p])

\* C26 amended: with EDD as the only rule, in Sequential mode or in Weighted
\* mode under a positive weight, sort returns the tasks in ascending order
\* of deadline, every task without a deadline after every task with one.
C26_EddAscendingWhenWeighed ==
    (Sorted /\ OnlyEdd
       /\ (engine.mode = "Sequential" \/ engine.rules[1].weight > 0)) =>
        \A p, q \in DOMAIN SortedOrder :
            p < q => ~ DueBefore(SortedOrder[q], SortedOrder[p])

\* C26 witness: an EDD sort of three tasks that moved a task without a
\* deadline from the front to the end and put the other two, given in
\* descending order of deadline, in ascending order.
C26_Witness ==
    /\ Sorted
    /\ OnlyEdd
    /\ engine.mode = "Sequential"
    /\ Len(tasks) = 3
    /\ tasks[1].deadline = None
    /\ DueBefore(3, 2)
    /\ SortedOrder = <<3, 2, 1>>

----------------------------------------------------------------------------
(* The MAV of the children of a crossover *)

\* C34: after a crossover of any type (POX, LOX or JOX) of two parents
\* valid for the activity list, the first child's MAV equals the first
\* parent's MAV and the second child's MAV equals the second parent's, at
\* every position.
C34_ChildrenInheritMav ==
    ( /\ ga_pc = "done"
      /\ Len(children) = 2
      /\ is_valid(built[1], activities)
      /\ is_valid(built[2], activities) )
    => \A k \in 1..2 :
          /\ Len(children[k].mav) = Len(built[k].mav)
          /\ \A i \in DOMAIN built[k].mav : children[k].mav[i] = built[k].mav[i]

----------------------------------------------------------------------------
(* Single calls of tournament_selection and decode_osv *)

\* a.fitness <= b.fitness on f64 values that are finite or +infinity
FitnessAtMost(a, b) == b.inf \/ (~ a.inf /\ a.value <= b.value)

OccurrencesUpTo(i) ==
    { j \in 1..i : individuals[1].osv[j] = individuals[1].osv[i] }

\* C36: decode_osv returns a list of the length of the OSV whose i-th pair
\* is the task id at position i with k, the position being the k-th
\* occurrence of that task id from the left; so the sequence numbers of each
\* task are 1, 2, ..., n in increasing order without gaps.
C36_DecodeBindsKthOccurrence ==
    IsSome(decoded) =>
        LET osv == individuals[1].osv
            pairs == Unwrap(decoded)
        IN  /\ Len(pairs) = Len(osv)
            /\ \A i \in DOMAIN osv :
                  /\ pairs[i][1] = osv[i]
                  /\ pairs[i][2] = Cardinality(OccurrencesUpTo(i))
            /\ \A t \in Range(osv) :
                  LET seqs == SelectSeq(pairs, LAMBDA pr : pr[1] = t)
                  IN  \A k \in DOMAIN seqs : seqs[k][2] = k

\* C36 witness: an OSV of four positions decoded in which a task occurs
\* twice with another task between its occurrences.
C36_Witness ==
    /\ IsSome(decoded)
    /\ Len(individuals[1].osv) = 4
    /\ \E i \in 1..2 :
          /\ individuals[1].osv[i] = individuals[1].osv[i + 2]
          /\ individuals[1].osv[i + 1] # individuals[1].osv[i]
          /\ Unwrap(decoded)[i + 2][2] = 2

----------------------------------------------------------------------------
(* The comparison of Sequential mode as an ordering *)

\* what the closure of sort_by answers for the tasks at input positions a
\* and b
SortCmp(a, b) == Comparisons(engine, tasks, Scored(engine, tasks, context))[<<a, b>>]

\* C38: in Sequential mode, with no NaN among the scores, the comparison
\* sort uses is a consistent ordering: whenever a is not ordered after b and
\* b is not ordered after c, a is not ordered after c.
C38_SequentialCmpTransitive ==
    (Sorted /\ engine.mode = "Sequential" /\ engine.rules # <<>> /\ NoNaNScore) =>
        \A a, b, c \in DOMAIN tasks :
            (SortCmp(a, b) # "Greater" /\ SortCmp(b, c) # "Greater")
                => SortCmp(a, c) # "Greater"

----------------------------------------------------------------------------
(* The loop of Population::evolve *)

\* C39: a call of evolve on a population of at least one individual
\* returns, whatever population_size, elite_ratio and tournament_size are:
\* each pass of the loop makes new_population longer, and the call ends with
\* at least population_size individuals.
C39_EvolveTerminates ==
    /\ [][(pop_pc = "refill" /\ pop_pc' = "refill")
            => Len(evolve_new_population') > Len(evolve_new_population)]_vars
    /\ [][(pop_pc = "refill" /\ pop_pc' = "evolve")
            => Len(individuals') >= params.population_size]_vars
    /\ (pop_pc = "refill" /\ individuals # <<>>) ~> (pop_pc = "evolve")

\* C39 witness: a call of evolve returned that found one individual, kept
\* no elite and filled a population of three, in two passes of the loop.
C39_Witness ==
    /\ pop_pc = "evolve"
    /\ generation = 1
    /\ params.population_size = 3
    /\ params.elite_ratio = <<0, 1>>
    /\ Len(fitness_history) = 1
    /\ Len(individuals) = 3

====
